---- MODULE Spec2Model ----
(***************************************************************************)
(* A model of the listing scraper of src/shopping.py: the link extractor   *)
(* (_get_main_link_from_container), list discovery (find_products), the    *)
(* pagination click-and-verify (try_next_page_button) and the session loop *)
(* (search_and_scrape), run against a small model of a browser.            *)
(***************************************************************************)
EXTENDS Integers, Sequences, FiniteSets, TLC

VARIABLES
    pc,                 \* position of the routine being run
    container_element,  \* argument of _get_main_link_from_container
    fault,              \* where the driver faults during the call under study
    main_link,          \* the value _get_main_link_from_container produced
    site,               \* the web site the browser is pointed at
    urls,               \* the web sites still to be visited after this one
    returned,           \* what search_and_scrape returned for the sites done
    ds_html_content,    \* extract_with_deepseek: characters of the HTML given
    ds_target_field,    \* extract_with_deepseek: the field asked for
    request,            \* extract_with_deepseek: what was sent to the client
    ds_returned,        \* extract_with_deepseek: the value returned
    fields,             \* what the selectors of the detail page give
    api,                \* how the external extractor answers, per field
    calls,              \* the target fields the external extractor was asked for
    input_file,         \* deduplicate_jsonl_file: the lines of the input file
    records,            \* deduplicate_jsonl_file: the records read
    output_file,        \* deduplicate_jsonl_file: the records written
    dd_returned,        \* deduplicate_jsonl_file: the triple returned
    classes_strs,       \* class attributes, as written, of the elements to analyze
    class_counts,       \* find_products: signature counts, in insertion order
    held,               \* history: which nodes held date from before the last
                        \* navigation, and whether such a node was used
    budget,             \* driver faults and rendering lags still to come
    handles,            \* driver.window_handles, in the driver's order
    active,             \* the window commands go to
    history,            \* the pages each window went through, last = shown
    sorted_frequent_classes,        \* find_products: ranked signatures
    cand,                           \* find_products: candidate being tried
    idx,                            \* find_products: container being tried
    links_from_this_class_group,    \* find_products: unique links so far
    consecutive_none_returns,       \* find_products: failure counter
    last_main_link,                 \* find_products: previous final outcome
    scroll_attempts,                \* find_products: retry cycles done
    found,                          \* find_products: the value returned
    outcomes,           \* history: final outcome of each container tried
    invoked,            \* history: last container link extraction was run on
    aborted,            \* history: the abort rule stopped this candidate
    max_pages,                          \* search_and_scrape: argument
    max_products_per_page,              \* search_and_scrape: argument
    page_num,                           \* search_and_scrape: page loop index
    i,                                  \* search_and_scrape: record loop index
    processed_product_hrefs_on_page,    \* the page-scoped ledger
    products_count,                     \* records persisted, as returned
    main_window,                        \* handle read before the click
    new_window,                         \* popup handle found after the click
    current_product_element_to_click,   \* the link resolved for record i
    target_href,                        \* its href
    file,                               \* the site's output file, one record per line
    next_button,                        \* primary pagination control
    tried_buttons,                      \* controls already clicked
    alternative_buttons,                \* alternates, in enumeration order
    alt_k,                              \* alternate being tried
    current_url,                        \* URL captured before pagination
    reason,             \* history: why the session ended
    product_info,                       \* what extract_product_info returned
    stale_raised,       \* history: record whose processing raised a stale fault
    opened,             \* history: popup the click of this iteration opened
    last_recovery,      \* history: what the last run of the fault handler did
    last_try            \* history: what the last try_next_page_button saw

linkVars == <<container_element, fault, main_link>>
browserVars == <<handles, active, history>>
findVars == <<sorted_frequent_classes, cand, idx, links_from_this_class_group,
              consecutive_none_returns, last_main_link, scroll_attempts, found,
              outcomes, invoked, aborted>>
recordVars == <<i, processed_product_hrefs_on_page, products_count, main_window,
                new_window, current_product_element_to_click, target_href, file,
                product_info, stale_raised, opened, last_recovery>>
pageVars == <<next_button, tried_buttons, alternative_buttons, alt_k,
              current_url, last_try>>
sessionVars == <<max_pages, max_products_per_page, page_num, reason,
                 recordVars, pageVars>>
runVars == <<urls, returned>>
extractVars == <<fields, api, calls>>
gatewayVars == <<ds_html_content, ds_target_field, request, ds_returned>>
dedupVars == <<input_file, records, output_file, dd_returned>>
countVars == <<classes_strs, class_counts>>
vars == <<pc, linkVars, site, runVars, extractVars, dedupVars, gatewayVars, countVars, held, budget, browserVars,
          findVars, sessionVars>>

\* ------------------------------------------------------------------ bounds
MaxAnchors == 2
MaxClassLen == 4         \* characters of a class attribute
MaxLines == 4            \* lines of a file given to deduplicate_jsonl_file
MaxNone == 2             \* lags/faults the environment injects in one run

\* ------------------------------------------------------- program constants
MinLinkSide == 40        \* _is_reasonable_size: own width/height threshold
MinParentSide == 50      \* _is_reasonable_size: container width/height threshold
MinTextLen == 5          \* significant text/title: more than 5 characters
HtmlCeiling == 100000    \* extract_with_deepseek: characters of HTML kept

\* href attribute values: absent, the no-op placeholder, or a real target >= 1
NoHref == 0
JsVoidHref == -1

\* ------------------------------------------------------------ DOM elements
\* An anchor inside a container: visibility, href, length of the stripped
\* visible text, length of the title attribute, and its box.
Anchor(v, hr, tx, ti, sz) ==
    [vis |-> v, href |-> hr, text |-> tx, title |-> ti, w |-> sz, h |-> sz]

\* A container: tag, visibility, class tokens as written, own href (anchors
\* only), own box and descendant anchors in document order.
Element(tg, v, cl, hr, sz, as) ==
    [tag |-> tg, vis |-> v, cls |-> cl, href |-> hr, w |-> sz, h |-> sz,
     anchors |-> as]

\* ----------------------------------------------- _is_reasonable_size
\* a size test that takes any displayed link
IsReasonableSizeIgnoringBox(link, parent) == link.vis

IsReasonableSize(link, parent) ==
    IF ~link.vis THEN FALSE
    ELSE IF link.w < MinLinkSide \/ link.h < MinLinkSide
         THEN parent.w > MinParentSide /\ parent.h > MinParentSide
         ELSE TRUE

\* ------------------------------------- _get_main_link_from_container
\* A link is named by its position: 0 is the container itself, k >= 1 its
\* k-th descendant anchor.
LinkResult(k) == [kind |-> "link", ref |-> k]
NoneResult == [kind |-> "none", ref |-> 0]
RaisedStale == [kind |-> "stale", ref |-> 0]
RaisedOther == [kind |-> "error", ref |-> 0]

\* lines 186-194: the filter a descendant anchor has to pass
Qualifies(c, k) ==
    LET link == c.anchors[k] IN
    /\ link.vis /\ link.href # NoHref /\ link.href # JsVoidHref
    /\ \/ link.text > MinTextLen \/ link.title > MinTextLen
       \/ IsReasonableSize(link, c)

RECURSIVE PotentialLinks(_, _)
PotentialLinks(c, k) ==
    IF k > Len(c.anchors) THEN <<>>
    ELSE (IF Qualifies(c, k) THEN <<k>> ELSE <<>>) \o PotentialLinks(c, k + 1)

\* the sort key as a sort without reverse=True would use it
KeyGreaterAscending(c, a, b) ==
    LET x == c.anchors[a]
        y == c.anchors[b]
    IN \/ x.text < y.text
       \/ x.text = y.text /\ x.w * x.h < y.w * y.h

\* the sort key if anchors of equal key changed places
KeyGreaterOrEqual(c, a, b) ==
    LET x == c.anchors[a]
        y == c.anchors[b]
    IN \/ x.text > y.text
       \/ x.text = y.text /\ x.w * x.h >= y.w * y.h

\* line 199: the sort key, compared lexicographically
KeyGreater(c, a, b) ==
    LET x == c.anchors[a]
        y == c.anchors[b]
    IN \/ x.text > y.text
       \/ x.text = y.text /\ x.w * x.h > y.w * y.h

\* list.sort(key=..., reverse=True): stable, equal keys keep their order
RECURSIVE InsertDesc(_, _, _)
InsertDesc(c, sorted, k) ==
    IF sorted = <<>> THEN <<k>>
    ELSE IF KeyGreater(c, k, Head(sorted)) THEN <<k>> \o sorted
         ELSE <<Head(sorted)>> \o InsertDesc(c, Tail(sorted), k)

RECURSIVE SortDescFrom(_, _, _)
SortDescFrom(c, links, acc) ==
    IF links = <<>> THEN acc
    ELSE SortDescFrom(c, Tail(links), InsertDesc(c, acc, Head(links)))

SortDesc(c, links) == SortDescFrom(c, links, <<>>)

\* the extractor without the priority of lines 172-176
MainLinkOfDescendantsOnly(c) ==
    LET potential_links == PotentialLinks(c, 1) IN
    IF potential_links # <<>>
    THEN LinkResult(Head(SortDesc(c, potential_links)))
    ELSE NoneResult

\* lines 172-203 when no driver call faults
MainLinkOf(c) ==
    IF c.tag = "a" /\ c.href # NoHref /\ c.vis THEN LinkResult(0)
    ELSE LET potential_links == PotentialLinks(c, 1) IN
         IF potential_links # <<>>
         THEN LinkResult(Head(SortDesc(c, potential_links)))
         ELSE NoneResult

\* The whole call: line 170 reads the tag outside the try block, so a fault
\* there leaves the function; a fault inside the try block yields None.
GetMainLinkFromContainer(c, f) ==
    CASE f = "entry_stale" -> RaisedStale
      [] f = "entry_error" -> RaisedOther
      [] f = "inner" -> NoneResult
      [] OTHER -> MainLinkOf(c)

LinkFaults == {"none", "entry_stale", "entry_error", "inner"}

\* href of the link a call returned
LinkHref(c, r) == IF r.ref = 0 THEN c.href ELSE c.anchors[r.ref].href

\* ------------------------------------------ inputs of the link extractor
Sides == {30, 45, 60}
TextLens == {0, 3, 10}
TitleLens == {0, 6}

AnchorSet ==
    {Anchor(TRUE, 1, tx, ti, sz) : tx \in TextLens, ti \in TitleLens, sz \in Sides}
    \cup {Anchor(TRUE, 2, 10, 0, 60), Anchor(TRUE, 2, 3, 0, 45),
          Anchor(FALSE, 1, 10, 6, 60), Anchor(TRUE, NoHref, 10, 6, 60),
          Anchor(TRUE, JsVoidHref, 10, 6, 60)}

RECURSIVE AnchorSeqs(_)
AnchorSeqs(n) ==
    IF n = 0 THEN {<<>>}
    ELSE AnchorSeqs(n - 1)
         \cup {Append(s, a) : s \in {t \in AnchorSeqs(n - 1) : Len(t) = n - 1},
                              a \in AnchorSet}

ContainerSet ==
    {Element(tg.t, tg.v, <<1>>, tg.hr, sz, as) :
        tg \in {[t |-> "div", v |-> TRUE, hr |-> NoHref],
                [t |-> "a", v |-> TRUE, hr |-> 3],
                [t |-> "a", v |-> FALSE, hr |-> 3],
                [t |-> "a", v |-> TRUE, hr |-> NoHref]},
        sz \in {45, 60}, as \in AnchorSeqs(MaxAnchors)}

\* ------------------------------------------------------------ the pages
\* A listing page is described by its shape: n record tiles of class "1 2"
\* in document order, of which some have no anchor at all (empties), some
\* are not displayed (hidden), some repeat the href of the tile before them
\* (dups), some write their tokens as "2 1" (perm) and some are themselves
\* anchors (selfa); then extras tiles of class "1 2 3", and rows elements of
\* class "4" before or after the tiles. base makes hrefs differ per page.
Shape(n, em, hd, du, pm, sa, ex, rw, rf, b) ==
    [n |-> n, empties |-> em, hidden |-> hd, dups |-> du, perm |-> pm,
     selfa |-> sa, extras |-> ex, rows |-> rw, rowsFirst |-> rf, base |-> b]

PlainShape(n, b) == Shape(n, {}, {}, {}, {}, {}, 0, 0, FALSE, b)

RECURSIVE TileHref(_, _)
TileHref(sh, j) ==
    IF j > 1 /\ j \in sh.dups THEN TileHref(sh, j - 1) ELSE sh.base + j

TitleAnchor(hr, v) == Anchor(v, hr, 10, 0, 60)
IconAnchor(hr, v) == Anchor(v, hr, 0, 0, 30)

Tile(sh, j) ==
    LET v == j \notin sh.hidden
        hr == TileHref(sh, j)
    IN IF j \in sh.selfa
       THEN Element("a", v, <<1, 2>>, hr, 60, <<>>)
       ELSE Element("div", v, IF j \in sh.perm THEN <<2, 1>> ELSE <<1, 2>>,
                    NoHref, 60,
                    IF j \in sh.empties THEN <<>>
                    ELSE <<IconAnchor(hr, v), TitleAnchor(hr, v)>>)

ExtraTile(sh, k) ==
    Element("div", TRUE, <<1, 2, 3>>, NoHref, 60,
            <<TitleAnchor(sh.base + 100 + k, TRUE)>>)

RowElement(sh, k) ==
    Element("li", TRUE, <<4>>, NoHref, 60,
            <<TitleAnchor(sh.base + 200 + k, TRUE)>>)

PageElements(sh) ==
    LET tiles == [j \in 1..sh.n |-> Tile(sh, j)]
        extras == [k \in 1..sh.extras |-> ExtraTile(sh, k)]
        rows == [k \in 1..sh.rows |-> RowElement(sh, k)]
    IN IF sh.rowsFirst THEN rows \o tiles \o extras
       ELSE tiles \o extras \o rows

\* Locations a window can show, and their URLs.
Home == [k |-> "home", n |-> 0]
Listing(p) == [k |-> "list", n |-> p]
Detail(h) == [k |-> "prod", n |-> h]
Closed == [k |-> "closed", n |-> 0]
EmptyUrl == [k |-> "empty", n |-> 0]

\* values of locals and history variables before anything set them
NoLink == [c |-> 0, ref |-> 0, href |-> NoHref]
NoButton == [p |-> 0, k |-> 0]
NoTry == [fresh |-> FALSE, read |-> FALSE, before |-> Closed, after |-> Closed,
          success |-> FALSE]
NoStale == [page |-> -1, i |-> -1, swallowed |-> FALSE]
NoInfo == [url |-> EmptyUrl]
NoFields == [title |-> <<>>, price |-> <<>>, nested |-> <<>>, url |-> "none",
             source |-> "none"]
NoApi == [title |-> [kind |-> "null", text |-> <<>>],
          price |-> [kind |-> "null", text |-> <<>>]]
NoRecovery == [page |-> -1, i |-> -1, driver_fault |-> FALSE, aborted |-> FALSE]

\* The elements of the document a location shows.
DomAt(st, l) ==
    IF l.k = "list" /\ l.n \in 1..Len(st.pages)
    THEN PageElements(st.pages[l.n]) ELSE <<>>

\* ---------------------------------------------------------- the browser
IsOpen(w) == \E k \in 1..Len(handles) : handles[k] = w
WindowOpen == IsOpen(active)
Loc(w) == IF IsOpen(w) /\ history[w] # <<>>
          THEN history[w][Len(history[w])] ELSE Closed
\* driver.current_url of the active window
CurrentUrl == Loc(active)
Dom == IF WindowOpen THEN DomAt(site, Loc(active)) ELSE <<>>

\* ------------------------------------------- find_products: clustering
min_products_for_list == 10
max_scroll_attempts == 5
\* the abort threshold as the warning of line 346 words it
AbortLimitAsLogged == 3
\* line 345: consecutive failures that stop a candidate
AbortLimit == 2

ListTags == {"li", "div", "article", "section"}

RECURSIVE InsertAsc(_, _)
InsertAsc(sorted, t) ==
    IF sorted = <<>> THEN <<t>>
    ELSE IF t < Head(sorted) THEN <<t>> \o sorted
         ELSE <<Head(sorted)>> \o InsertAsc(Tail(sorted), t)

RECURSIVE SortedTokens(_)
SortedTokens(cl) ==
    IF cl = <<>> THEN <<>>
    ELSE InsertAsc(SortedTokens(SubSeq(cl, 1, Len(cl) - 1)), cl[Len(cl)])

\* line 254: tuple(sorted(filter(None, classes_str.split())))
ClassSignature(el) == SortedTokens(el.cls)

\* lines 248-257: the elements that are counted
Counted(el) == el.tag \in ListTags /\ el.vis /\ el.cls # <<>>

ClassCount(dom, sig) ==
    Cardinality({j \in 1..Len(dom) : Counted(dom[j]) /\ ClassSignature(dom[j]) = sig})

\* the keys of class_counts, in insertion order
RECURSIVE SignaturesFrom(_, _, _)
SignaturesFrom(dom, j, acc) ==
    IF j > Len(dom) THEN acc
    ELSE LET sig == ClassSignature(dom[j]) IN
         SignaturesFrom(dom, j + 1,
            IF Counted(dom[j]) /\ \A k \in 1..Len(acc) : acc[k] # sig
            THEN Append(acc, sig) ELSE acc)

\* the same insertion for a sort without reverse=True
RECURSIVE InsertByCountAscending(_, _, _)
InsertByCountAscending(dom, sorted, sig) ==
    IF sorted = <<>> THEN <<sig>>
    ELSE IF ClassCount(dom, sig) < ClassCount(dom, Head(sorted))
         THEN <<sig>> \o sorted
         ELSE <<Head(sorted)>> \o InsertByCountAscending(dom, Tail(sorted), sig)

\* sorted(..., key=count, reverse=True): stable
RECURSIVE InsertByCount(_, _, _)
InsertByCount(dom, sorted, sig) ==
    IF sorted = <<>> THEN <<sig>>
    ELSE IF ClassCount(dom, sig) > ClassCount(dom, Head(sorted))
         THEN <<sig>> \o sorted
         ELSE <<Head(sorted)>> \o InsertByCount(dom, Tail(sorted), sig)

RECURSIVE SortByCountFrom(_, _, _)
SortByCountFrom(dom, sigs, acc) ==
    IF sigs = <<>> THEN acc
    ELSE SortByCountFrom(dom, Tail(sigs), InsertByCount(dom, acc, Head(sigs)))

\* lines 262-264
SortedFrequentClasses(dom) ==
    LET keys == SignaturesFrom(dom, 1, <<>>)
        frequent == SelectSeq(keys,
                        LAMBDA sig : ClassCount(dom, sig) >= min_products_for_list)
    IN SortByCountFrom(dom, frequent, <<>>)

\* line 277: find_elements(By.CSS_SELECTOR, ".t1.t2"): every element, of any
\* tag and displayed or not, whose class tokens include all of the selector's
CssMatches(el, sig) ==
    \A k \in 1..Len(sig) : \E m \in 1..Len(el.cls) : el.cls[m] = sig[k]

RECURSIVE CssSelectFrom(_, _, _)
CssSelectFrom(dom, sig, j) ==
    IF j > Len(dom) THEN <<>>
    ELSE (IF CssMatches(dom[j], sig) THEN <<j>> ELSE <<>>)
         \o CssSelectFrom(dom, sig, j + 1)

CssSelect(dom, sig) == CssSelectFrom(dom, sig, 1)

\* ------------------------------------------------ find_products: steps
NoneFound == [links |-> <<>>, selector |-> <<>>, ok |-> FALSE]

\* faults the environment may inject into one call of the link extractor
CallFaults == IF budget > 0 THEN LinkFaults ELSE {"none"}
Spend(f) == IF f = "none" THEN budget ELSE budget - 1

Containers == CssSelect(Dom, sorted_frequent_classes[cand])

ProcessedHrefs(links) == {links[k].href : k \in 1..Len(links)}

\* an append without the test of lines 296 and 325
AddLinkAlways(links, ci, r) ==
    Append(links, [c |-> ci, ref |-> r.ref, href |-> LinkHref(Dom[ci], r)])

\* lines 295-298 and 324-327: keep the first link of each href
AddLink(links, ci, r) ==
    LET href == LinkHref(Dom[ci], r) IN
    IF href # NoHref /\ href \notin ProcessedHrefs(links)
    THEN Append(links, [c |-> ci, ref |-> r.ref, href |-> href])
    ELSE links

\* a retry rule that scrolls for every failing container
ShouldRetryAlways == TRUE

\* line 302: scroll and retry only if the previous container ended in success
ShouldRetry == last_main_link

\* a counter that a link with a known href leaves alone
CounterAfterNewLink(consecutive, links, ci, r) ==
    IF LinkHref(Dom[ci], r) \in ProcessedHrefs(links) THEN consecutive ELSE 0

\* lines 294 and 323: any link returned resets the counter
CounterAfterLink(consecutive, links, ci, r) == 0

\* a threshold test no candidate passes
EnoughNever(links) == FALSE

\* line 351: enough unique links for a product list
Enough(links) == Len(links) >= min_products_for_list

\* lines 345-347 and the end of the container loop
AfterContainer(consecutive) ==
    IF consecutive >= AbortLimit
    THEN /\ pc' = "fp_after" /\ aborted' = TRUE /\ idx' = idx
    ELSE /\ aborted' = aborted
         /\ IF idx < Len(Containers)
            THEN pc' = "fp_container" /\ idx' = idx + 1
            ELSE pc' = "fp_after" /\ idx' = idx

\* line 356: an exception anywhere in a candidate's block skips the candidate
SkipCandidate ==
    /\ pc' = "fp_cand" /\ cand' = cand + 1
    /\ UNCHANGED <<idx, links_from_this_class_group, consecutive_none_returns,
                   last_main_link, scroll_attempts, found, outcomes, invoked,
                   aborted>>

\* lines 244-270
FP_Cluster ==
    /\ pc = "fp_start"
    /\ IF WindowOpen
       THEN /\ sorted_frequent_classes' = SortedFrequentClasses(Dom)
            /\ pc' = "fp_cand"
       ELSE /\ sorted_frequent_classes' = <<>>
            /\ pc' = "fp_raised"
    /\ cand' = 1
    /\ idx' = 0 /\ links_from_this_class_group' = <<>>
    /\ consecutive_none_returns' = 0 /\ last_main_link' = FALSE
    /\ scroll_attempts' = 0 /\ found' = NoneFound
    /\ outcomes' = <<>> /\ invoked' = 0 /\ aborted' = FALSE
    /\ UNCHANGED <<linkVars, site, runVars, extractVars, dedupVars, gatewayVars, countVars, held, budget, browserVars, sessionVars>>

\* lines 271-287, and 360-361 when the candidates are used up
FP_NextCandidate ==
    /\ pc = "fp_cand"
    /\ IF cand > Len(sorted_frequent_classes)
       THEN /\ found' = NoneFound /\ pc' = "fp_done"
            /\ UNCHANGED <<cand, idx, links_from_this_class_group,
                           consecutive_none_returns, last_main_link, outcomes,
                           invoked, aborted>>
       ELSE IF Len(Containers) >= min_products_for_list
       THEN /\ links_from_this_class_group' = <<>>
            /\ consecutive_none_returns' = 0 /\ last_main_link' = FALSE
            /\ idx' = 1 /\ outcomes' = <<>> /\ invoked' = 0 /\ aborted' = FALSE
            /\ pc' = "fp_container"
            /\ UNCHANGED <<cand, found>>
       ELSE /\ cand' = cand + 1 /\ pc' = "fp_cand"
            /\ UNCHANGED <<idx, links_from_this_class_group,
                           consecutive_none_returns, last_main_link, found,
                           outcomes, invoked, aborted>>
    /\ UNCHANGED <<container_element, fault, main_link, site, runVars, extractVars, dedupVars, gatewayVars, countVars, held, budget,
                   browserVars, sorted_frequent_classes, scroll_attempts,
                   sessionVars>>

\* lines 288-343 up to the first scroll: one container, first call
FP_Container ==
    /\ pc = "fp_container"
    /\ \E f \in CallFaults :
         LET ci == Containers[idx]
             r == GetMainLinkFromContainer(Dom[ci], f)
         IN /\ budget' = Spend(f)
            /\ main_link' = r
            /\ IF r.kind \in {"stale", "error"}
               THEN SkipCandidate
               ELSE /\ invoked' = idx
                    /\ UNCHANGED <<cand, found>>
                    /\ IF r.kind = "link"
                       THEN /\ consecutive_none_returns' =
                                   CounterAfterLink(consecutive_none_returns,
                                       links_from_this_class_group, ci, r)
                            /\ links_from_this_class_group' =
                                   AddLink(links_from_this_class_group, ci, r)
                            /\ last_main_link' = TRUE
                            /\ outcomes' = Append(outcomes, TRUE)
                            /\ UNCHANGED scroll_attempts
                            /\ AfterContainer(CounterAfterLink(consecutive_none_returns,
                                                  links_from_this_class_group, ci, r))
                       ELSE IF ShouldRetry
                       THEN /\ scroll_attempts' = 0
                            /\ pc' = "fp_retry"
                            /\ UNCHANGED <<idx, links_from_this_class_group,
                                           consecutive_none_returns,
                                           last_main_link, outcomes, aborted>>
                       ELSE /\ consecutive_none_returns' =
                                   consecutive_none_returns + 1
                            /\ last_main_link' = FALSE
                            /\ outcomes' = Append(outcomes, FALSE)
                            /\ UNCHANGED <<links_from_this_class_group,
                                           scroll_attempts>>
                            /\ AfterContainer(consecutive_none_returns + 1)
    /\ UNCHANGED <<container_element, fault, site, runVars, extractVars, dedupVars, gatewayVars, countVars, held, browserVars,
                   sorted_frequent_classes, sessionVars>>

\* lines 308-338: one scroll-and-retry cycle on the same container
FP_Retry ==
    /\ pc = "fp_retry"
    /\ scroll_attempts < max_scroll_attempts
    /\ \E f \in CallFaults :
         LET ci == Containers[idx]
             r == GetMainLinkFromContainer(Dom[ci], f)
         IN /\ budget' = Spend(f)
            /\ main_link' = r
            /\ IF r.kind \in {"stale", "error"}
               THEN SkipCandidate
               ELSE /\ UNCHANGED <<cand, found, invoked>>
                    /\ IF r.kind = "link"
                       THEN /\ consecutive_none_returns' =
                                   CounterAfterLink(consecutive_none_returns,
                                       links_from_this_class_group, ci, r)
                            /\ links_from_this_class_group' =
                                   AddLink(links_from_this_class_group, ci, r)
                            /\ last_main_link' = TRUE
                            /\ outcomes' = Append(outcomes, TRUE)
                            /\ UNCHANGED scroll_attempts
                            /\ AfterContainer(CounterAfterLink(consecutive_none_returns,
                                                  links_from_this_class_group, ci, r))
                       ELSE IF scroll_attempts + 1 < max_scroll_attempts
                       THEN /\ scroll_attempts' = scroll_attempts + 1
                            /\ pc' = "fp_retry"
                            /\ UNCHANGED <<idx, links_from_this_class_group,
                                           consecutive_none_returns,
                                           last_main_link, outcomes, aborted>>
                       ELSE /\ scroll_attempts' = scroll_attempts + 1
                            /\ consecutive_none_returns' =
                                   consecutive_none_returns + 1
                            /\ last_main_link' = FALSE
                            /\ outcomes' = Append(outcomes, FALSE)
                            /\ UNCHANGED links_from_this_class_group
                            /\ AfterContainer(consecutive_none_returns + 1)
    /\ UNCHANGED <<container_element, fault, site, runVars, extractVars, dedupVars, gatewayVars, countVars, held, browserVars,
                   sorted_frequent_classes, sessionVars>>

\* lines 350-355: after the container loop, ended or broken out of
FP_EndCandidate ==
    /\ pc = "fp_after"
    /\ IF Enough(links_from_this_class_group)
       THEN /\ found' = [links |-> links_from_this_class_group,
                         selector |-> sorted_frequent_classes[cand],
                         ok |-> TRUE]
            /\ pc' = "fp_done"
            /\ UNCHANGED cand
       ELSE /\ cand' = cand + 1 /\ pc' = "fp_cand"
            /\ UNCHANGED found
    /\ UNCHANGED <<linkVars, site, runVars, extractVars, dedupVars, gatewayVars, countVars, held, budget, browserVars,
                   sorted_frequent_classes, idx, links_from_this_class_group,
                   consecutive_none_returns, last_main_link, scroll_attempts,
                   outcomes, invoked, aborted, sessionVars>>

FindStep ==
    \/ FP_Cluster \/ FP_NextCandidate \/ FP_Container \/ FP_Retry
    \/ FP_EndCandidate

\* ------------------------------------------------- extract_with_deepseek
\* Texts are sequences of characters; Absent stands for None / a missing key.
Absent == <<"absent">>
Blanks == {" ", "\n"}
Digits == {"0", "4", "9"}

LowerChar(c) ==
    CASE c = "N" -> "n" [] c = "O" -> "o" [] c = "E" -> "e"
      [] c = "P" -> "p" [] c = "S" -> "s" [] OTHER -> c

\* str.lower() if it left the letters as they are
LowerNot(t) == t

\* str.lower()
Lower(t) == [k \in 1..Len(t) |-> LowerChar(t[k])]

RECURSIVE StripLeft(_)
StripLeft(t) == IF t # <<>> /\ Head(t) \in Blanks THEN StripLeft(Tail(t)) ELSE t
RECURSIVE StripRight(_)
StripRight(t) ==
    IF t # <<>> /\ t[Len(t)] \in Blanks
    THEN StripRight(SubSeq(t, 1, Len(t) - 1)) ELSE t
\* str.strip()
Strip(t) == StripRight(StripLeft(t))

\* what the client call gives: an exception (timeout included), no response,
\* no choices, a message without content, or a message text
Raises == [kind |-> "raise", text |-> <<>>]
NoResponse == [kind |-> "null", text |-> <<>>]
NoChoices == [kind |-> "nochoices", text |-> <<>>]
NoContent == [kind |-> "nocontent", text |-> <<>>]
Answer(t) == [kind |-> "text", text |-> t]

TargetFields == {"price", "title"}

\* lines 29-88
ExtractWithDeepseek(target_field, resp) ==
    IF target_field \notin TargetFields THEN Absent               \* line 57
    ELSE IF resp.kind = "raise" THEN Absent                       \* lines 86-88
    ELSE IF resp.kind \in {"null", "nochoices"} THEN Absent       \* lines 82-84
    ELSE IF resp.kind = "nocontent" THEN Absent      \* .strip() on None raises
    ELSE LET extracted_text == Strip(resp.text) IN
         IF Lower(extracted_text) = <<"n", "o", "n", "e">>
            \/ extracted_text = <<>>
         THEN Absent
         ELSE extracted_text

AnswerTexts ==
    {<<>>, <<" ", "\n">>, <<"n", "o", "n", "e">>, <<"N", "o", "n", "e">>,
     <<"N", "O", "N", "E">>, <<" ", "n", "O", "n", "E", "\n">>,
     <<"P", "S", "4">>, <<" ", "$", "9", "9", " ">>, <<"n", "o", "n", "e", "s">>}
Responses ==
    {Raises, NoResponse, NoChoices, NoContent} \cup {Answer(t) : t \in AnswerTexts}

\* The HTML given is modelled by its number of characters, which is all the
\* truncation looks at; EllipsisMark is len("...").
EllipsisMark == 3

\* lines 43-44 if nothing were cut
HtmlSentWhole(n) == n

\* lines 43-44: html_content[:100000] + "..."
HtmlSent(n) == IF n > HtmlCeiling THEN HtmlCeiling + EllipsisMark ELSE n

NoRequest == [sent |-> FALSE, field |-> "", html |-> 0]

\* lines 61-70: the user message carries the prompt of the field and the HTML
Request(field, n) == [sent |-> TRUE, field |-> field, html |-> n]

\* extract_with_deepseek(html_content, target_field), lines 29-88; the client
\* answers with any of the responses
DS_Call ==
    /\ pc = "ds_start"
    /\ pc' = "ds_done"
    /\ IF ds_target_field \notin TargetFields
       THEN /\ request' = NoRequest                              \* line 57
            /\ ds_returned' = ExtractWithDeepseek(ds_target_field, NoResponse)
       ELSE /\ request' = Request(ds_target_field, HtmlSent(ds_html_content))
            /\ \E resp \in Responses :
                   ds_returned' = ExtractWithDeepseek(ds_target_field, resp)
    /\ UNCHANGED <<linkVars, site, runVars, extractVars, dedupVars, ds_html_content,
                   ds_target_field, countVars, held, budget, browserVars, findVars,
                   sessionVars>>

IdleGateway ==
    /\ ds_html_content = 0 /\ ds_target_field = "" /\ request = NoRequest
    /\ ds_returned = Absent

\* -------------------------------------------------- extract_product_info
Falsy(v) == v = Absent \/ v = <<>>

RECURSIVE DigitRun(_, _)
DigitRun(t, k) ==
    IF k <= Len(t) /\ t[k] \in Digits THEN 1 + DigitRun(t, k + 1) ELSE 0

\* re.search(r'\$\d+', t)
HasDollarDigits(t) == \E k \in 1..Len(t) : t[k] = "$" /\ DigitRun(t, k + 1) > 0

\* re.search(r'(\$\d+(\.\d+)?)', t).group(1), lines 479-481
PriceMatch(t) ==
    IF ~HasDollarDigits(t) THEN Absent
    ELSE LET k == CHOOSE j \in 1..Len(t) :
                     /\ t[j] = "$" /\ DigitRun(t, j + 1) > 0
                     /\ \A h \in 1..(j - 1) :
                            ~(t[h] = "$" /\ DigitRun(t, h + 1) > 0)
             e == k + DigitRun(t, k + 1)
             frac == IF e + 1 <= Len(t) /\ t[e + 1] = "."
                     THEN DigitRun(t, e + 2) ELSE 0
         IN SubSeq(t, k, IF frac > 0 THEN e + 1 + frac ELSE e)

\* lines 440-451: the first displayed title element, stripped
SelectorTitle(fd) == IF fd.title = Absent THEN Absent ELSE Strip(fd.title)

\* lines 453-491: the first displayed price element, a nested element with a
\* '$' when its own text has none, then the price pattern or the whole text
SelectorPrice(fd) ==
    IF fd.price = Absent THEN Absent
    ELSE LET own == Strip(fd.price)
             price_text == IF (own = <<>> \/ \A k \in 1..Len(own) : own[k] # "$")
                              /\ fd.nested # Absent
                           THEN Strip(fd.nested) ELSE own
             price_match == PriceMatch(price_text)
         IN IF price_match # Absent THEN price_match ELSE price_text

\* lines 513-523 without the test for the zero price
HasValidPriceWithZero(price) == ~Falsy(price) /\ HasDollarDigits(price)

\* lines 513-523
HasValidPrice(price) ==
    /\ ~Falsy(price)
    /\ HasDollarDigits(price)
    /\ price # <<"$", "0", ".", "0", "0">>

\* lines 501-509 and 525-534: one use of the external extractor
Fallback(fd, ap, target_field, value) ==
    IF fd.source = "raise" THEN [value |-> value, calls |-> <<>>]
    ELSE LET extracted == ExtractWithDeepseek(target_field, ap[target_field])
         IN [value |-> IF Falsy(extracted) THEN value ELSE extracted,
             calls |-> <<target_field>>]

\* lines 419-536
ExtractProductInfo(fd, ap) ==
    LET title0 == SelectorTitle(fd)
        price0 == SelectorPrice(fd)
        url == IF fd.url = "empty" THEN EmptyUrl ELSE Detail(1)
        t == IF url # EmptyUrl /\ Falsy(title0)
             THEN Fallback(fd, ap, "title", title0)
             ELSE [value |-> title0, calls |-> <<>>]
        p == IF url # EmptyUrl /\ ~HasValidPrice(price0)
             THEN Fallback(fd, ap, "price", price0)
             ELSE [value |-> price0, calls |-> <<>>]
    IN [raised |-> fd.url = "raise",                       \* line 494
        info |-> [title |-> t.value, price |-> p.value, url |-> url],
        calls |-> t.calls \o p.calls]

\* the call at line 652
EX_Extract ==
    /\ pc = "ex_start"
    /\ LET r == ExtractProductInfo(fields, api) IN
       IF r.raised
       THEN pc' = "ex_raised" /\ UNCHANGED <<product_info, calls>>
       ELSE pc' = "ex_done" /\ product_info' = r.info /\ calls' = r.calls
    /\ UNCHANGED <<linkVars, site, runVars, fields, api, dedupVars, gatewayVars, countVars, held, budget, browserVars,
                   findVars, max_pages, max_products_per_page, page_num, reason,
                   i, processed_product_hrefs_on_page, products_count,
                   main_window, new_window, current_product_element_to_click,
                   target_href, file, stale_raised, opened, last_recovery,
                   pageVars>>

\* ------------------------------------------------------ browser commands
Navigated(w, l) == [history EXCEPT ![w] = Append(@, l)]
WentBack(w) ==
    [history EXCEPT ![w] = IF Len(@) > 1 THEN SubSeq(@, 1, Len(@) - 1) ELSE @]
FreePopups == SelectSeq(<<"p1", "p2">>, LAMBDA w : ~IsOpen(w))
WithoutHandle(hs, w) == SelectSeq(hs, LAMBDA x : x # w)

\* what a click on a product link does: a new tab on sites that open one
\* (while the model has a handle left for it), else a navigation in place
ClickOpensPopup == site.popup /\ FreePopups # <<>>
HandlesAfterClick ==
    IF ClickOpensPopup THEN Append(handles, Head(FreePopups)) ELSE handles
HistoryAfterClick(href) ==
    IF ClickOpensPopup
    THEN [history EXCEPT ![Head(FreePopups)] = <<Detail(href)>>]
    ELSE Navigated(active, Detail(href))

\* "search" in url.lower(): only listing URLs of sites that put it there
UrlHasSearch(l) == l.k = "list" /\ site.search

\* ----------------------------------------- search_and_scrape: record loop
product_elements == found.links
ProductsToProcess ==
    IF max_products_per_page < Len(product_elements)
    THEN max_products_per_page ELSE Len(product_elements)

RecordPcs == {"rec_top", "rec_click", "rec_extract", "rec_restore", "rec_fault"}

Faults(S) == IF budget > 0 THEN {"none"} \cup S ELSE {"none"}

\* no node is held, none was misused
NoneHeld == [products |-> FALSE, link |-> FALSE, button |-> FALSE,
             misused |-> FALSE]

\* The nodes held - the links find_products returned, the link resolved for
\* the record, the pagination controls - after a step that used one of them
\* (fresh says whether the node used was obtained since the last navigation):
\* a step that changed what the browser shows leaves every node held stale.
Held(h, fresh) ==
    LET m == h.misused \/ ~fresh IN
    IF browserVars' # browserVars
    THEN [products |-> FALSE, link |-> FALSE, button |-> FALSE, misused |-> m]
    ELSE [h EXCEPT !.misused = m]

\* line 589 if the list of discovery were used for every record
RefindNever(k) == FALSE

\* line 589: from the second record on, the containers are found again
Refind(k) == k > 0

\* the loop of line 585 if it did not advance
ContinueSameRecord == i' = i /\ pc' = "rec_top"

\* `continue`, or the end of an iteration
Continue ==
    /\ i' = i + 1
    /\ pc' = IF i + 1 < ProductsToProcess THEN "rec_top" ELSE "paginate"

\* `break` out of the record loop
Break == i' = i /\ pc' = "paginate"

\* lines 687-689: the handler of a stale reference raised in the iteration
OnStaleContinue ==
    /\ stale_raised' = [page |-> page_num, i |-> i, swallowed |-> FALSE]
    /\ Continue

OnStale ==
    /\ stale_raised' = [page |-> page_num, i |-> i, swallowed |-> FALSE]
    /\ Break

\* line 690: any other exception enters the recovery handler
OnError == i' = i /\ pc' = "rec_fault"

\* line 621 without the ledger
AlreadyProcessedNever(href) == FALSE

\* line 621
AlreadyProcessed(href) == href \in processed_product_hrefs_on_page

\* lines 659-664 if the file were opened for writing
OverwriteWithRecord(f, record) == <<record>>

\* lines 659-664: the file is opened in mode "a" and one record written
AppendRecord(f, record) == Append(f, record)

\* line 654 without the test
HasUrlAlways(info) == TRUE

\* line 654
HasUrl(info) == info.url # EmptyUrl

\* lines 569-573: top of the page loop, calling find_products
SS_Discover ==
    /\ pc = "page_top"
    /\ IF page_num < max_pages
       THEN pc' = "fp_start" /\ reason' = reason
       ELSE pc' = "ss_done" /\ reason' = "max_pages"
    /\ UNCHANGED <<linkVars, site, runVars, extractVars, dedupVars, gatewayVars, countVars, held, budget, browserVars, findVars, max_pages,
                   max_products_per_page, page_num, recordVars, pageVars>>

\* lines 740-741 without the handler: the exception leaves the call
OnTopLevelErrorPropagates == pc' = "run_raised" /\ reason' = "exception"

\* lines 740-744: the top-level handler logs, and the count is returned
OnTopLevelError == pc' = "ss_done" /\ reason' = "exception"

\* lines 576-578 if a page without products were only skipped
OnNoProductsPaginate == pc' = "paginate" /\ reason' = reason

\* lines 576-578: no products found ends the page loop
OnNoProducts == pc' = "ss_done" /\ reason' = "discovery_failed"

\* lines 574-583: find_products returned (or raised)
SS_AfterFind ==
    /\ pc \in {"fp_done", "fp_raised"}
    /\ IF pc = "fp_raised"
       THEN OnTopLevelError
       ELSE IF ~found.ok
       THEN OnNoProducts
       ELSE pc' = "rec_top" /\ reason' = reason
    /\ i' = 0
    /\ processed_product_hrefs_on_page' = {}
    \* the locals of find_products are gone
    /\ sorted_frequent_classes' = <<>> /\ cand' = 0 /\ idx' = 0
    /\ links_from_this_class_group' = <<>> /\ consecutive_none_returns' = 0
    /\ last_main_link' = FALSE /\ scroll_attempts' = 0
    /\ outcomes' = <<>> /\ invoked' = 0 /\ aborted' = FALSE
    /\ main_link' = NoneResult
    /\ held' = [products |-> pc = "fp_done" /\ found.ok, link |-> FALSE,
                button |-> FALSE, misused |-> held.misused]
    /\ UNCHANGED <<container_element, fault, site, runVars, extractVars, dedupVars, gatewayVars, countVars, budget, browserVars, found,
                   max_pages, max_products_per_page, page_num, products_count,
                   main_window, new_window, current_product_element_to_click,
                   target_href, file, product_info, stale_raised, opened,
                   last_recovery, pageVars>>

\* lines 586-623: resolve the link of record i and check the ledger
SS_Resolve ==
    /\ pc = "rec_top"
    /\ opened' = "none"
    /\ \E f \in Faults(IF i > 0
                       THEN {"find_error", "inner", "entry_stale", "entry_error",
                             "href_stale", "href_error"}
                       ELSE {"href_stale", "href_error"}) :
         LET refreshed == CssSelect(Dom, found.selector)
             r == IF i < Len(refreshed)
                  THEN GetMainLinkFromContainer(Dom[refreshed[i + 1]],
                            IF f \in LinkFaults THEN f ELSE "none")
                  ELSE NoneResult
             link == IF ~Refind(i) THEN product_elements[i + 1]
                     ELSE IF r.kind = "link"
                     THEN [c |-> refreshed[i + 1], ref |-> r.ref,
                           href |-> LinkHref(Dom[refreshed[i + 1]], r)]
                     ELSE NoLink
         IN /\ budget' = Spend(f)
            /\ held' = IF Refind(i) /\ (f = "find_error" \/ ~WindowOpen)
                       THEN held
                       ELSE IF link = NoLink THEN [held EXCEPT !.link = FALSE]
                       ELSE LET fresh == Refind(i) \/ held.products
                            IN  [held EXCEPT !.link = fresh,
                                             !.misused = @ \/ ~fresh]
            /\ IF Refind(i) /\ (f = "find_error" \/ ~WindowOpen)
               THEN /\ OnError
                    /\ current_product_element_to_click' = NoLink
                    /\ UNCHANGED <<target_href, stale_raised>>
               ELSE IF link = NoLink
               THEN /\ Continue
                    /\ current_product_element_to_click' = NoLink
                    /\ stale_raised' =
                          IF r.kind = "stale"
                          THEN [page |-> page_num, i |-> i, swallowed |-> TRUE]
                          ELSE stale_raised
                    /\ UNCHANGED target_href
               ELSE /\ current_product_element_to_click' = link
                    /\ IF f = "href_stale"
                       THEN OnStale /\ UNCHANGED target_href
                       ELSE IF f = "href_error"
                       THEN OnError /\ UNCHANGED <<target_href, stale_raised>>
                       ELSE /\ target_href' = link.href
                            /\ UNCHANGED stale_raised
                            /\ IF AlreadyProcessed(link.href)
                               THEN Continue
                               ELSE i' = i /\ pc' = "rec_click"
    /\ UNCHANGED <<linkVars, site, runVars, extractVars, dedupVars, gatewayVars, countVars, browserVars, findVars, max_pages,
                   max_products_per_page, page_num, reason,
                   processed_product_hrefs_on_page, products_count, main_window,
                   new_window, file, product_info, last_recovery, pageVars>>

\* lines 626-640: click the link and look for a new window
SS_Click ==
    /\ pc = "rec_click"
    /\ \E f \in Faults({"click_stale", "click_error", "intercepted",
                        "js_stale", "js_error", "switch_error"}) :
         /\ budget' = Spend(f)
         /\ IF ~WindowOpen
            THEN \* line 626 raises
                 /\ OnError
                 /\ UNCHANGED <<main_window, new_window, browserVars,
                                stale_raised, opened>>
            ELSE /\ main_window' = active
                 /\ IF f \in {"click_stale", "js_stale"}
                    THEN OnStale /\ UNCHANGED <<new_window, browserVars, opened>>
                    ELSE IF f \in {"click_error", "js_error"}
                    THEN /\ OnError
                         /\ UNCHANGED <<new_window, browserVars, stale_raised,
                                        opened>>
                    ELSE /\ handles' = HandlesAfterClick
                         /\ history' = HistoryAfterClick(target_href)
                         /\ opened' = IF ClickOpensPopup
                                      THEN Head(FreePopups) ELSE "none"
                         /\ UNCHANGED stale_raised
                         /\ LET others == WithoutHandle(handles', active) IN
                            IF Len(handles') > 1
                            THEN /\ new_window' = Head(others)
                                 /\ IF f = "switch_error"
                                    THEN OnError /\ active' = active
                                    ELSE /\ active' = Head(others)
                                         /\ i' = i /\ pc' = "rec_extract"
                            ELSE /\ new_window' = "none"
                                 /\ active' = active
                                 /\ i' = i /\ pc' = "rec_extract"
    /\ UNCHANGED <<linkVars, site, runVars, extractVars, dedupVars, gatewayVars, countVars, findVars, max_pages, max_products_per_page,
                   page_num, reason, processed_product_hrefs_on_page,
                   products_count, current_product_element_to_click,
                   target_href, file, product_info, last_recovery, pageVars>>
    /\ held' = Held(held, ~WindowOpen \/ held.link)

\* lines 641-669: extract the record and persist it
SS_Extract ==
    /\ pc = "rec_extract"
    /\ \E f \in Faults({"url_error", "url_empty", "write_error"}) :
         /\ budget' = Spend(f)
         /\ IF f = "url_error" \/ ~WindowOpen
            THEN /\ OnError
                 /\ UNCHANGED <<product_info, processed_product_hrefs_on_page,
                                file, products_count>>
            ELSE LET info == [url |-> IF f = "url_empty" THEN EmptyUrl
                                      ELSE CurrentUrl]
                 IN /\ product_info' = info
                    /\ IF HasUrl(info)
                       THEN /\ processed_product_hrefs_on_page' =
                                processed_product_hrefs_on_page \cup {target_href}
                            /\ IF f = "write_error"
                               THEN OnError /\ UNCHANGED <<file, products_count>>
                               ELSE /\ file' = AppendRecord(file,
                                         [url |-> info.url, page |-> page_num,
                                          href |-> target_href,
                                          c |-> current_product_element_to_click.c])
                                    /\ products_count' = products_count + 1
                                    /\ i' = i /\ pc' = "rec_restore"
                       ELSE /\ i' = i /\ pc' = "rec_restore"
                            /\ UNCHANGED <<processed_product_hrefs_on_page, file,
                                           products_count>>
    /\ UNCHANGED <<linkVars, site, runVars, extractVars, dedupVars, gatewayVars, countVars, held, browserVars, findVars, max_pages,
                   max_products_per_page, page_num, reason, main_window,
                   new_window, current_product_element_to_click, target_href,
                   stale_raised, opened, last_recovery, pageVars>>

\* lines 671-685: close the popup and switch back, or navigate back
SS_Restore ==
    /\ pc = "rec_restore"
    /\ \E f \in Faults({"close_error", "switch_error", "back_error"}) :
         /\ budget' = Spend(f)
         /\ IF new_window # "none"
            THEN IF f = "close_error" \/ ~WindowOpen
                 THEN OnError /\ UNCHANGED browserVars
                 ELSE /\ handles' = WithoutHandle(handles, active)
                      /\ history' = [history EXCEPT ![active] = <<>>]
                      /\ IF f = "switch_error"
                         THEN OnError /\ active' = active
                         ELSE active' = main_window /\ Continue
            ELSE IF f = "back_error" \/ ~WindowOpen
                 THEN OnError /\ UNCHANGED browserVars
                 ELSE /\ history' = WentBack(active)
                      /\ UNCHANGED <<handles, active>>
                      /\ Continue
    /\ UNCHANGED <<linkVars, site, runVars, extractVars, dedupVars, gatewayVars, countVars, findVars, max_pages, max_products_per_page,
                   page_num, reason, processed_product_hrefs_on_page,
                   products_count, main_window, new_window,
                   current_product_element_to_click, target_href, file,
                   product_info, stale_raised, opened, last_recovery, pageVars>>
    /\ held' = Held(held, TRUE)

\* lines 690-701: the handler of any other exception
SS_Recover ==
    /\ pc = "rec_fault"
    /\ \E f \in Faults({"close_error", "switch_error", "back_error"}) :
         /\ budget' = Spend(f)
         /\ IF new_window = "unbound"
            THEN \* line 693 reads a local that was never assigned: NameError
                 /\ Break /\ UNCHANGED browserVars
                 /\ last_recovery' = [page |-> page_num, i |-> i,
                                      driver_fault |-> FALSE, aborted |-> TRUE]
            ELSE IF ~WindowOpen
            THEN \* current_window_handle, or current_url, raises
                 /\ Break /\ UNCHANGED browserVars
                 /\ last_recovery' = [page |-> page_num, i |-> i,
                                      driver_fault |-> TRUE, aborted |-> TRUE]
            ELSE IF new_window # "none" /\ active = new_window
            THEN IF f = "close_error"
                 THEN /\ Break /\ UNCHANGED browserVars
                      /\ last_recovery' = [page |-> page_num, i |-> i,
                                           driver_fault |-> TRUE, aborted |-> TRUE]
                 ELSE /\ handles' = WithoutHandle(handles, active)
                      /\ history' = [history EXCEPT ![active] = <<>>]
                      /\ IF f = "switch_error"
                         THEN /\ Break /\ active' = active
                              /\ last_recovery' =
                                    [page |-> page_num, i |-> i,
                                     driver_fault |-> TRUE, aborted |-> TRUE]
                         ELSE /\ active' = main_window /\ Continue
                              /\ last_recovery' =
                                    [page |-> page_num, i |-> i,
                                     driver_fault |-> FALSE, aborted |-> FALSE]
            ELSE IF CurrentUrl # Home /\ ~UrlHasSearch(CurrentUrl)
            THEN IF f = "back_error"
                 THEN /\ Break /\ UNCHANGED browserVars
                      /\ last_recovery' = [page |-> page_num, i |-> i,
                                           driver_fault |-> TRUE, aborted |-> TRUE]
                 ELSE /\ history' = WentBack(active)
                      /\ UNCHANGED <<handles, active>>
                      /\ Continue
                      /\ last_recovery' = [page |-> page_num, i |-> i,
                                           driver_fault |-> FALSE, aborted |-> FALSE]
            ELSE /\ Continue /\ UNCHANGED browserVars
                 /\ last_recovery' = [page |-> page_num, i |-> i,
                                      driver_fault |-> FALSE, aborted |-> FALSE]
    /\ UNCHANGED <<linkVars, site, runVars, extractVars, dedupVars, gatewayVars, countVars, findVars, max_pages, max_products_per_page,
                   page_num, reason, processed_product_hrefs_on_page,
                   products_count, main_window, new_window,
                   current_product_element_to_click, target_href, file,
                   product_info, stale_raised, opened, pageVars>>
    /\ held' = Held(held, TRUE)

\* ------------------------------------------------- find_next_page_button
\* A pagination control: the locator strategies (1..6, in the order of lines
\* 378-389) that match it, whether it shows and is enabled, what a click
\* does to the URL, and whether an overlay intercepts a direct click.
Control(strategies, v, en, effect, overlay) ==
    [strategies |-> strategies, vis |-> v, enabled |-> en, effect |-> effect,
     overlay |-> overlay]

NumStrategies == 6

ControlsAt(l) ==
    IF l.k = "list" /\ l.n \in 1..Len(site.nexts) THEN site.nexts[l.n] ELSE <<>>

\* lines 395-410 in return_all mode: every match of every strategy, strategy
\* by strategy, skipping excluded, hidden and disabled elements
RECURSIVE EnumerateButtons(_, _, _, _)
EnumerateButtons(l, exclude, st, k) ==
    LET ctls == ControlsAt(l) IN
    IF st > NumStrategies THEN <<>>
    ELSE IF k > Len(ctls) THEN EnumerateButtons(l, exclude, st + 1, 1)
    ELSE (IF /\ st \in ctls[k].strategies
             /\ [p |-> l.n, k |-> k] \notin exclude
             /\ ctls[k].vis /\ ctls[k].enabled
          THEN <<[p |-> l.n, k |-> k]>> ELSE <<>>)
         \o EnumerateButtons(l, exclude, st, k + 1)

\* lines 416-417
FindAlternativeNextButtons(l, exclude) == EnumerateButtons(l, exclude, 1, 1)

\* lines 363-414 with return_all=False: the first match
FindNextPageButton(l) ==
    LET all == EnumerateButtons(l, {}, 1, 1) IN
    IF all = <<>> THEN NoButton ELSE Head(all)

\* ------------------------------------------------- try_next_page_button
\* lines 778 and 793 if any completed click counted as progress
UrlChangedAlways(new_url, url) == TRUE

\* lines 778 and 793 if no click counted as progress
UrlChangedNever(new_url, url) == FALSE

\* lines 778 and 793: the only success signal
UrlChanged(new_url, url) == new_url # url

\* line 764 without the test
AlreadyTriedNever(button) == FALSE

\* line 764
AlreadyTried(button) == button \in tried_buttons

TryFaults == {"click_error", "intercepted", "js_error", "url_error"}

\* One call, with fault f: what it returns and what it leaves behind.
TryNextPageButton(button, f) ==
    IF AlreadyTried(button)
    THEN [success |-> FALSE, tried |-> tried_buttons, hist |-> history,
          seen |-> [fresh |-> FALSE, read |-> FALSE, before |-> current_url,
                    after |-> current_url, success |-> FALSE]]
    ELSE LET here == CurrentUrl
             ctls == ControlsAt(here)
             attached == WindowOpen /\ button.p = here.n /\ button.k \in 1..Len(ctls)
             viaJs == attached /\ (ctls[button.k].overlay
                                   \/ f \in {"intercepted", "js_error"})
             clicked == /\ attached /\ f # "click_error"
                        /\ ~(viaJs /\ f = "js_error")
             hist == IF clicked /\ ctls[button.k].effect = "next"
                     THEN Navigated(active, Listing(here.n + 1)) ELSE history
             read == clicked /\ f # "url_error"
             new_url == hist[active][Len(hist[active])]
             success == read /\ UrlChanged(new_url, current_url)
         IN [success |-> success, tried |-> tried_buttons \cup {button},
             hist |-> hist,
             seen |-> [fresh |-> TRUE, read |-> read, before |-> current_url,
                       after |-> new_url, success |-> success]]

\* ------------------------------------------ search_and_scrape: page loop
Finish(why) == pc' = "ss_done" /\ reason' = why

\* lines 554-567: open the site and search
SS_Start ==
    /\ pc = "ss_start"
    /\ \E f \in Faults({"get_error"}) :
         /\ budget' = Spend(f)
         /\ IF f = "get_error" \/ ~WindowOpen
            THEN OnTopLevelError /\ UNCHANGED history
            ELSE IF ~site.box
            THEN Finish("no_search_box") /\ UNCHANGED history
            ELSE /\ history' = Navigated(active, Listing(1))
                 /\ pc' = "page_top" /\ reason' = reason
    /\ page_num' = 0
    /\ UNCHANGED <<linkVars, site, runVars, extractVars, dedupVars, gatewayVars, countVars, handles, active, findVars, max_pages,
                   max_products_per_page, recordVars, pageVars>>
    /\ held' = Held(held, TRUE)

\* line 703 if the last page were not excepted
MorePagesAllowedOffByOne == page_num < max_pages

\* line 703
MorePagesAllowed == page_num < max_pages - 1

\* lines 703-738, up to the first click
SS_Paginate ==
    /\ pc = "paginate"
    /\ opened' = "none"
    /\ IF MorePagesAllowed
       THEN LET button == IF WindowOpen THEN FindNextPageButton(CurrentUrl)
                          ELSE NoButton
            IN IF button # NoButton
               THEN /\ next_button' = button
                    /\ current_url' = CurrentUrl
                    /\ tried_buttons' = {}
                    /\ held' = [held EXCEPT !.button = TRUE]
                    /\ pc' = "try_primary" /\ reason' = reason
               ELSE /\ Finish("no_next_button")
                    /\ UNCHANGED <<next_button, current_url, tried_buttons, held>>
       ELSE /\ Finish("max_pages")
            /\ UNCHANGED <<next_button, current_url, tried_buttons, held>>
    /\ UNCHANGED <<linkVars, site, runVars, extractVars, dedupVars, gatewayVars, countVars, budget, browserVars, findVars, max_pages,
                   max_products_per_page, page_num, i,
                   processed_product_hrefs_on_page, products_count, main_window,
                   new_window, current_product_element_to_click, target_href,
                   file, product_info, stale_raised, last_recovery,
                   alternative_buttons, alt_k, last_try>>

\* lines 712-732: the primary candidate, then the search for alternates
SS_TryPrimary ==
    /\ pc = "try_primary"
    /\ \E f \in Faults(TryFaults) :
         LET t == TryNextPageButton(next_button, f) IN
         /\ budget' = Spend(f)
         /\ tried_buttons' = t.tried
         /\ history' = t.hist
         /\ last_try' = t.seen
         /\ IF t.success
            THEN /\ page_num' = page_num + 1
                 /\ pc' = "page_top" /\ reason' = reason
                 /\ UNCHANGED <<alternative_buttons, alt_k>>
            ELSE LET alts == FindAlternativeNextButtons(
                                 t.hist[active][Len(t.hist[active])], t.tried)
                 IN /\ alternative_buttons' = alts
                    /\ page_num' = page_num
                    /\ IF alts # <<>>
                       THEN alt_k' = 1 /\ pc' = "try_alt" /\ reason' = reason
                       ELSE alt_k' = alt_k /\ Finish("no_alternative")
    /\ UNCHANGED <<linkVars, site, runVars, extractVars, dedupVars, gatewayVars, countVars, handles, active, findVars, max_pages,
                   max_products_per_page, recordVars, next_button, current_url>>
    \* the click uses the control; alternates are looked for after it
    /\ held' = IF pc' = "try_alt"
               THEN [Held(held, AlreadyTried(next_button) \/ held.button)
                        EXCEPT !.button = TRUE]
               ELSE Held(held, AlreadyTried(next_button) \/ held.button)

\* line 721 if the loop gave up after one alternate
MoreAlternativesNever == FALSE

\* line 721: the loop over the alternates has one left
MoreAlternatives == alt_k < Len(alternative_buttons)

\* lines 721-729: one alternate
SS_TryAlternative ==
    /\ pc = "try_alt"
    /\ \E f \in Faults(TryFaults) :
         LET t == TryNextPageButton(alternative_buttons[alt_k], f) IN
         /\ budget' = Spend(f)
         /\ tried_buttons' = t.tried
         /\ history' = t.hist
         /\ last_try' = t.seen
         /\ IF t.success
            THEN /\ page_num' = page_num + 1
                 /\ pc' = "page_top" /\ reason' = reason
                 /\ UNCHANGED alt_k
            ELSE /\ page_num' = page_num
                 /\ IF MoreAlternatives
                    THEN alt_k' = alt_k + 1 /\ pc' = "try_alt" /\ reason' = reason
                    ELSE alt_k' = alt_k /\ Finish("pagination_failed")
    /\ UNCHANGED <<linkVars, site, runVars, extractVars, dedupVars, gatewayVars, countVars, handles, active, findVars, max_pages,
                   max_products_per_page, recordVars, next_button, current_url,
                   alternative_buttons>>
    /\ held' = Held(held, AlreadyTried(alternative_buttons[alt_k]) \/ held.button)

\* __main__, lines 822-834: the call returned; on to the next website, with
\* the same browser, a new call frame and that website's own output file
Main_NextSite ==
    /\ pc = "ss_done"
    /\ returned' = Append(returned, [count |-> products_count, reason |-> reason])
    /\ IF urls # <<>>
       THEN /\ site' = Head(urls) /\ urls' = Tail(urls)
            /\ budget' = Head(urls).faults
            /\ pc' = "ss_start"
            /\ page_num' = 0 /\ reason' = "running"
            /\ i' = 0 /\ processed_product_hrefs_on_page' = {}
            /\ products_count' = 0
            /\ main_window' = "unbound" /\ new_window' = "unbound"
            /\ current_product_element_to_click' = NoLink
            /\ target_href' = NoHref
            /\ file' = <<>> /\ stale_raised' = NoStale /\ product_info' = NoInfo
            /\ opened' = "none" /\ last_recovery' = NoRecovery
            /\ next_button' = NoButton /\ tried_buttons' = {}
            /\ alternative_buttons' = <<>> /\ alt_k' = 0
            /\ current_url' = Closed /\ last_try' = NoTry
            /\ found' = NoneFound
            /\ held' = [NoneHeld EXCEPT !.misused = held.misused]
            /\ UNCHANGED <<linkVars, extractVars, dedupVars, gatewayVars, countVars, browserVars,
                           sorted_frequent_classes, cand,
                           idx, links_from_this_class_group,
                           consecutive_none_returns, last_main_link,
                           scroll_attempts, outcomes, invoked, aborted,
                           max_pages, max_products_per_page>>
       ELSE /\ pc' = "run_done"
            /\ UNCHANGED <<linkVars, site, urls, extractVars, dedupVars, gatewayVars, countVars, held, budget,
                           browserVars, findVars, sessionVars>>

SessionStep ==
    \/ SS_Start \/ SS_Discover \/ SS_AfterFind
    \/ SS_Resolve \/ SS_Click \/ SS_Extract \/ SS_Restore \/ SS_Recover
    \/ SS_Paginate \/ SS_TryPrimary \/ SS_TryAlternative
    \/ Main_NextSite

\* ---------------------------------------------------------------- sites
WindowNames == {"main", "p1", "p2"}

Site(pages, nexts, search, popup, box, faults) ==
    [pages |-> pages, nexts |-> nexts, search |-> search, popup |-> popup,
     box |-> box, faults |-> faults]

ItemCounts == {9, 10, 11, 12}

FindShapes ==
    {Shape(n, em, {}, {}, {}, {}, 0, 0, FALSE, 0) :
        n \in ItemCounts, em \in {{}, {1}, {2, 3}, {3, 4}, {5, 7}, {11, 12}, {12}}}
    \cup {Shape(n, {}, hd, du, pm, sa, ex, 0, FALSE, 0) :
            n \in {10, 12}, hd \in {{}, {6, 7}, {11}}, du \in {{}, {2}, {2, 3}},
            pm \in {{}, {1, 3}}, sa \in {{}, {4}}, ex \in {0, 1}}
    \cup {Shape(n, {}, {}, {}, {}, {}, 0, rw, rf, 0) :
            n \in {9, 10, 11}, rw \in {9, 10, 11}, rf \in BOOLEAN}
    \cup {Shape(10, {}, {}, {}, {}, {}, 1, rw, rf, 0) :
            rw \in {10, 11}, rf \in BOOLEAN}
    \cup {Shape(13, {11, 12}, {}, {}, {}, {}, 0, 0, FALSE, 0),
          Shape(12, {2, 4}, {}, {2, 3}, {}, {}, 0, 0, FALSE, 0),
          Shape(12, {2, 4, 5}, {}, {2, 3}, {}, {}, 0, 0, FALSE, 0)}

FindSites ==
    {Site(<<sh>>, <<>>, TRUE, FALSE, TRUE, MaxNone) : sh \in FindShapes}

OneWindow(h) == [w \in WindowNames |-> IF w = "main" THEN h ELSE <<>>]

IdleLink ==
    /\ container_element = Element("div", TRUE, <<>>, NoHref, 0, <<>>)
    /\ fault = "none"
    /\ main_link = NoneResult

IdleSession ==
    /\ urls = <<>> /\ returned = <<>>
    /\ max_pages = 0 /\ max_products_per_page = 0 /\ page_num = 0
    /\ reason = "running"
    /\ i = 0 /\ processed_product_hrefs_on_page = {} /\ products_count = 0
    /\ main_window = "unbound" /\ new_window = "unbound"
    /\ current_product_element_to_click = NoLink /\ target_href = NoHref
    /\ file = <<>> /\ stale_raised = NoStale /\ product_info = NoInfo
    /\ opened = "none" /\ last_recovery = NoRecovery
    /\ next_button = NoButton /\ tried_buttons = {} /\ alternative_buttons = <<>>
    /\ alt_k = 0 /\ current_url = Closed /\ last_try = NoTry

IdleExtract == fields = NoFields /\ api = NoApi /\ calls = <<>>

\* ------------------------------------------- deduplicate_jsonl_file
\* A line of the input file is blank, is not JSON, is JSON but not an object,
\* or is an object; of an object only the value under key_field matters, and
\* the number of its line tells two objects with the same value apart.
File(exists, content) == [exists |-> exists, content |-> content]
NoInput == File(FALSE, <<>>)     \* os.path.exists(input_file) is false
NotWritten == File(FALSE, <<>>)  \* the output file was never opened
NoKey == "None"             \* record.get(key_field) of an object without it
EmptyKey == ""
Unhashable == "[]"          \* a value that cannot be a dictionary key
KeyValues == {NoKey, EmptyKey, Unhashable, "a", "b"}
Line(kind, key) == [kind |-> kind, key |-> key]
Lines ==
    {Line("blank", NoKey), Line("invalid", NoKey), Line("scalar", NoKey)}
    \cup {Line("object", k) : k \in KeyValues}

RECURSIVE ReadRecords(_, _)
ReadRecords(lines, line_num) ==
    IF line_num > Len(lines) THEN <<>>
    ELSE LET line == lines[line_num]
             rest == ReadRecords(lines, line_num + 1)
         IN  IF line.kind \in {"blank", "invalid"} THEN rest
             ELSE <<[kind |-> line.kind, key |-> line.key, line |-> line_num]>>
                  \o rest

Truthy(key) == key \notin {NoKey, EmptyKey}

KeyCountRaises(recs) ==
    \E n \in 1..Len(recs) : recs[n].kind = "scalar" \/ recs[n].key = Unhashable

InUnique(unique, key) == \E n \in 1..Len(unique) : unique[n].key = key

KeepFirst(unique, record) ==
    IF Truthy(record.key) /\ ~InUnique(unique, record.key)
    THEN Append(unique, record)
    ELSE unique

RECURSIVE UniqueRecords(_, _)
UniqueRecords(recs, unique) ==
    IF recs = <<>> THEN unique
    ELSE UniqueRecords(Tail(recs), KeepFirst(unique, Head(recs)))

DD_Read ==
    /\ pc = "dd_start"
    /\ IF ~input_file.exists
       THEN /\ dd_returned' = <<0, 0, 0>>
            /\ pc' = "dd_done"
            /\ UNCHANGED records
       ELSE /\ records' = ReadRecords(input_file.content, 1)
            /\ pc' = "dd_read"
            /\ UNCHANGED dd_returned
    /\ UNCHANGED <<linkVars, site, runVars, extractVars, gatewayVars, input_file, output_file, countVars, held,
                   budget, browserVars, findVars, sessionVars>>

DD_Write ==
    /\ pc = "dd_read"
    /\ pc' = "dd_done"
    /\ IF KeyCountRaises(records)
       THEN /\ dd_returned' = <<0, 0, 0>>
            /\ UNCHANGED output_file
       ELSE LET unique_records == UniqueRecords(records, <<>>)
                num_input == Len(records)
                num_output == Len(unique_records)
            IN  /\ output_file' = File(TRUE, unique_records)
                /\ dd_returned' = <<num_input, num_output, num_input - num_output>>
    /\ UNCHANGED <<linkVars, site, runVars, extractVars, gatewayVars, input_file, records, countVars, held,
                   budget, browserVars, findVars, sessionVars>>

NoReturn == <<>>
IdleDedup ==
    /\ input_file = NoInput /\ records = <<>>
    /\ output_file = NotWritten /\ dd_returned = NoReturn

\* ------------------------- find_products: class signatures, as written
\* The class attribute as a string of characters; lines 252-257 on it.
ClassChars == {"a", "b", " "}
CharRank(c) == CASE c = "a" -> 1 [] c = "b" -> 2 [] OTHER -> 0

\* str.split(): the maximal runs of characters that are not whitespace
RECURSIVE SplitFrom(_, _, _)
SplitFrom(str, k, word) ==
    IF k > Len(str)
    THEN (IF word = <<>> THEN <<>> ELSE <<word>>)
    ELSE IF str[k] \in Blanks
         THEN (IF word = <<>> THEN <<>> ELSE <<word>>) \o SplitFrom(str, k + 1, <<>>)
         ELSE SplitFrom(str, k + 1, Append(word, str[k]))

Split(str) == SplitFrom(str, 1, <<>>)

\* the order of Python strings: by character, a proper prefix first
RECURSIVE WordLess(_, _)
WordLess(x, y) ==
    IF y = <<>> THEN FALSE
    ELSE IF x = <<>> THEN TRUE
    ELSE IF CharRank(Head(x)) # CharRank(Head(y))
         THEN CharRank(Head(x)) < CharRank(Head(y))
         ELSE WordLess(Tail(x), Tail(y))

RECURSIVE InsertWord(_, _)
InsertWord(sorted, word) ==
    IF sorted = <<>> THEN <<word>>
    ELSE IF WordLess(word, Head(sorted)) THEN <<word>> \o sorted
         ELSE <<Head(sorted)>> \o InsertWord(Tail(sorted), word)

RECURSIVE SortWords(_)
SortWords(words) ==
    IF words = <<>> THEN <<>>
    ELSE InsertWord(SortWords(SubSeq(words, 1, Len(words) - 1)), words[Len(words)])

\* the signature without the sort of line 254
SortedClassesAsWritten(classes_str) == Split(classes_str)

\* line 254: tuple(sorted(filter(None, classes_str.split())))
SortedClasses(classes_str) == SortWords(Split(classes_str))

\* line 257: class_counts[sorted_classes] = class_counts.get(sorted_classes, 0) + 1
Increment(counts, sorted_classes) ==
    IF \E k \in 1..Len(counts) : counts[k].key = sorted_classes
    THEN [k \in 1..Len(counts) |->
            IF counts[k].key = sorted_classes
            THEN [key |-> sorted_classes, n |-> counts[k].n + 1]
            ELSE counts[k]]
    ELSE Append(counts, [key |-> sorted_classes, n |-> 1])

\* lines 248-257 over displayed elements: an empty attribute and an
\* attribute of whitespace only are not counted
RECURSIVE CountClasses(_, _)
CountClasses(strs, counts) ==
    IF strs = <<>> THEN counts
    ELSE LET classes_str == Head(strs)
             sorted_classes == SortedClasses(classes_str)
         IN  CountClasses(Tail(strs),
                 IF classes_str # <<>> /\ sorted_classes # <<>>
                 THEN Increment(counts, sorted_classes)
                 ELSE counts)

FP_CountClasses ==
    /\ pc = "cc_start"
    /\ class_counts' = CountClasses(classes_strs, <<>>)
    /\ pc' = "cc_done"
    /\ UNCHANGED <<linkVars, site, runVars, extractVars, dedupVars, gatewayVars, classes_strs,
                   held, budget, browserVars, findVars, sessionVars>>

IdleCount ==
    /\ classes_strs = <<>> /\ class_counts = <<>> /\ held = NoneHeld
    /\ IdleGateway

IdleFind ==
    /\ sorted_frequent_classes = <<>> /\ cand = 0 /\ idx = 0
    /\ links_from_this_class_group = <<>> /\ consecutive_none_returns = 0
    /\ last_main_link = FALSE /\ scroll_attempts = 0 /\ found = NoneFound
    /\ outcomes = <<>> /\ invoked = 0 /\ aborted = FALSE

\* ------------------------------------------------ find_products, alone
InitFind ==
    /\ pc = "fp_start"
    /\ site \in FindSites
    /\ budget = site.faults
    /\ handles = <<"main">> /\ active = "main"
    /\ history = OneWindow(<<Home, Listing(1)>>)
    /\ IdleLink /\ IdleFind /\ IdleSession /\ IdleExtract /\ IdleDedup /\ IdleCount

NextFind == FindStep

SpecFind == InitFind /\ [][NextFind]_vars

\* ------------------------------------------------------------ the session
MaxPages == 3
MaxFaults == 1

CleanNext == Control({1}, TRUE, TRUE, "next", FALSE)
CoveredNext == Control({6}, TRUE, TRUE, "next", TRUE)
Decoy == Control({3}, TRUE, TRUE, "none", FALSE)
TwiceListedDecoy == Control({2, 5}, TRUE, TRUE, "none", FALSE)
DisabledNext == Control({1}, TRUE, FALSE, "next", FALSE)

FirstDecoy == Control({1}, TRUE, TRUE, "none", FALSE)

NextLists ==
    {<<CleanNext>>, <<Decoy, CoveredNext>>,
     <<TwiceListedDecoy, Decoy, CoveredNext>>,
     <<DisabledNext>>, <<FirstDecoy, TwiceListedDecoy>>}

\* two clean pages of twelve records each, and a next control on the first
CleanSites ==
    {Site(<<PlainShape(12, 0), PlainShape(12, 20)>>, <<<<CleanNext>>, <<>>>>,
          s, pp, TRUE, 0) : s \in BOOLEAN, pp \in BOOLEAN}

FirstPages ==
    {PlainShape(10, 0),
     Shape(11, {}, {}, {2}, {}, {}, 0, 0, FALSE, 0),
     Shape(11, {3}, {}, {}, {}, {}, 0, 0, FALSE, 0)}

\* pages with repeated links or empty tiles, misleading pagination controls
RoughSites ==
    {Site(<<sh, PlainShape(10, 20)>>, <<nx, <<Decoy>>>>, s, pp, TRUE, 0) :
        sh \in FirstPages, nx \in NextLists, s \in BOOLEAN, pp \in BOOLEAN}
    \cup {Site(<<PlainShape(10, 0)>>, <<<<CleanNext>>>>, TRUE, FALSE, FALSE, 0)}
    \cup {Site(<<PlainShape(10, 0), PlainShape(9, 20)>>,
                <<<<CleanNext>>, <<CleanNext>>>>, TRUE, pp, TRUE, 0) :
             pp \in BOOLEAN}

\* the same, with driver faults striking
FaultySites ==
    {Site(<<sh, PlainShape(10, 20)>>, <<nx, <<>>>>, s, pp, TRUE, MaxFaults) :
        sh \in {PlainShape(10, 0), Shape(11, {}, {}, {2}, {}, {}, 0, 0, FALSE, 0)},
        nx \in {<<CleanNext>>, <<Decoy, CoveredNext>>},
        s \in BOOLEAN, pp \in BOOLEAN}

SessionSites == CleanSites \cup RoughSites \cup FaultySites

\* runs over two websites: a faulty one, then a small clean one
LastSite == Site(<<PlainShape(10, 0)>>, <<<<>>>>, TRUE, FALSE, TRUE, 0)
UrlsAfter(st) ==
    IF st \in FaultySites /\ st.pages[1] = PlainShape(10, 0)
       /\ st.nexts[1] = <<CleanNext>>
    THEN {<<>>, <<LastSite>>} ELSE {<<>>}

Init ==
    /\ pc = "ss_start"
    /\ site \in SessionSites
    /\ urls \in UrlsAfter(site) /\ returned = <<>>
    /\ budget = site.faults
    /\ handles = <<"main">> /\ active = "main" /\ history = OneWindow(<<Home>>)
    /\ IdleLink /\ IdleFind /\ IdleExtract /\ IdleDedup /\ IdleCount
    /\ max_pages \in (IF site.faults > 0 THEN {2} ELSE 1..MaxPages)
    /\ max_products_per_page \in (IF site.faults > 0 THEN {3} ELSE {3, 100})
    /\ page_num = 0 /\ reason = "running"
    /\ i = 0 /\ processed_product_hrefs_on_page = {} /\ products_count = 0
    /\ main_window = "unbound" /\ new_window = "unbound"
    /\ current_product_element_to_click = NoLink /\ target_href = NoHref
    /\ file = <<>> /\ stale_raised = NoStale /\ product_info = NoInfo
    /\ opened = "none" /\ last_recovery = NoRecovery
    /\ next_button = NoButton /\ tried_buttons = {} /\ alternative_buttons = <<>>
    /\ alt_k = 0 /\ current_url = Closed /\ last_try = NoTry

Next == SessionStep \/ FindStep

Spec == Init /\ [][Next]_vars


\* ------------------------------------------- the field extractor, alone
\* lines 654-669: the record is appended if it has a url
EX_Persist ==
    /\ pc = "ex_done"
    /\ pc' = "ex_persisted"
    /\ IF HasUrl(product_info)
       THEN /\ processed_product_hrefs_on_page' =
                  processed_product_hrefs_on_page \cup {target_href}
            /\ file' = AppendRecord(file, product_info)
            /\ products_count' = products_count + 1
       ELSE UNCHANGED <<processed_product_hrefs_on_page, file, products_count>>
    /\ UNCHANGED <<linkVars, site, runVars, extractVars, dedupVars, gatewayVars, countVars, held, budget, browserVars,
                   findVars, max_pages, max_products_per_page, page_num, reason,
                   i, main_window, new_window,
                   current_product_element_to_click, target_href, product_info,
                   stale_raised, opened, last_recovery, pageVars>>

TitleTexts == {Absent, <<>>, <<" ", "P", "S", "4">>}
PriceTexts ==
    {Absent, <<>>, <<"$", "4", "9">>, <<"$", "0", ".", "0", "0">>,
     <<"4", "9">>, <<"P", "$", "4", ".", "9", " ">>}
NestedTexts == {Absent, <<" ", "$", "9">>}
InitExtract ==
    /\ pc = "ex_start"
    /\ fields \in [title : TitleTexts, price : PriceTexts, nested : NestedTexts,
                   url : {"ok", "empty", "raise"}, source : {"ok", "raise"}]
    /\ api \in [title : Responses, price : Responses]
    /\ calls = <<>>
    /\ IdleLink
    /\ site = Site(<<>>, <<>>, TRUE, FALSE, TRUE, 0)
    /\ budget = 0
    /\ handles = <<"main">> /\ active = "main"
    /\ history = OneWindow(<<Home, Listing(1), Detail(1)>>)
    /\ IdleFind /\ IdleSession /\ IdleDedup /\ IdleCount

NextExtract == EX_Extract \/ EX_Persist

SpecExtract == InitExtract /\ [][NextExtract]_vars

\* ------------------------------------------ extract_with_deepseek, alone
\* pages shorter than, as long as and longer than the ceiling
HtmlLengths ==
    {0, 1, HtmlCeiling - 1, HtmlCeiling, HtmlCeiling + 1, HtmlCeiling + 2,
     HtmlCeiling + EllipsisMark, HtmlCeiling + EllipsisMark + 1, 2 * HtmlCeiling}

\* the two fields the function knows, and names it does not know
FieldNames == {"price", "title", "Price", "url", "brand", ""}

InitGateway ==
    /\ pc = "ds_start"
    /\ ds_html_content \in HtmlLengths
    /\ ds_target_field \in FieldNames
    /\ request = NoRequest
    /\ ds_returned = Absent
    /\ classes_strs = <<>> /\ class_counts = <<>> /\ held = NoneHeld
    /\ IdleLink
    /\ site = Site(<<>>, <<>>, TRUE, FALSE, TRUE, 0)
    /\ budget = 0
    /\ handles = <<"main">> /\ active = "main" /\ history = OneWindow(<<Home>>)
    /\ IdleFind /\ IdleSession /\ IdleExtract /\ IdleDedup

NextGateway == DS_Call

SpecGateway == InitGateway /\ [][NextGateway]_vars

\* ------------------------------------------ deduplicate_jsonl_file, alone
InputFiles ==
    {NoInput} \cup {File(TRUE, ls) : ls \in UNION {[1..n -> Lines] : n \in 0..MaxLines}}

InitDedup ==
    /\ pc = "dd_start"
    /\ input_file \in InputFiles
    /\ records = <<>>
    /\ output_file = NotWritten
    /\ dd_returned = NoReturn
    /\ IdleLink
    /\ site = Site(<<>>, <<>>, TRUE, FALSE, TRUE, 0)
    /\ budget = 0
    /\ handles = <<"main">> /\ active = "main" /\ history = OneWindow(<<Home>>)
    /\ IdleFind /\ IdleSession /\ IdleExtract /\ IdleCount

NextDedup == DD_Read \/ DD_Write

SpecDedup == InitDedup /\ [][NextDedup]_vars

\* --------------------------------------------- class counting, alone
ClassStrings == UNION {[1..n -> ClassChars] : n \in 0..MaxClassLen}

InitCount ==
    /\ pc = "cc_start"
    /\ classes_strs \in [1..2 -> ClassStrings]
    /\ class_counts = <<>>
    /\ held = NoneHeld
    /\ IdleGateway
    /\ IdleLink
    /\ site = Site(<<>>, <<>>, TRUE, FALSE, TRUE, 0)
    /\ budget = 0
    /\ handles = <<"main">> /\ active = "main" /\ history = OneWindow(<<Home>>)
    /\ IdleFind /\ IdleSession /\ IdleExtract /\ IdleDedup

NextCount == FP_CountClasses

SpecCount == InitCount /\ [][NextCount]_vars

\* ------------------------------------------------ link extractor, alone
InitLink ==
    /\ pc = "link_call"
    /\ container_element \in ContainerSet
    /\ fault \in LinkFaults
    /\ main_link = NoneResult
    /\ site = Site(<<>>, <<>>, TRUE, FALSE, TRUE, 0)
    /\ budget = 0
    /\ handles = <<"main">> /\ active = "main" /\ history = OneWindow(<<Home>>)
    /\ IdleFind /\ IdleSession /\ IdleExtract /\ IdleDedup /\ IdleCount

CallGetMainLink ==
    /\ pc = "link_call"
    /\ main_link' = GetMainLinkFromContainer(container_element, fault)
    /\ pc' = "link_done"
    /\ UNCHANGED <<container_element, fault, site, runVars, extractVars, dedupVars, gatewayVars, countVars, held, budget, browserVars, findVars,
                   sessionVars>>

NextLink == CallGetMainLink

SpecLink == InitLink /\ [][NextLink]_vars

\* =================================================================== claims

\* ---- C1 (search_and_scrape) ----
\* C1: whenever control is back at the record loop or the page loop after an
\* iteration whose click opened a new window, that window is closed and the
\* active window is the main handle.
C1_MainHandleRestored ==
    (pc \in {"rec_top", "paginate"} /\ opened # "none") =>
        /\ ~IsOpen(opened)
        /\ IsOpen(active) /\ active = "main"

\* ---- C2 (search_and_scrape) ----
\* C2: every record in the output file has a non-empty url, and the product
\* count equals the number of records in the file.
C2_NoUrlNeverPersisted ==
    /\ \A k \in 1..Len(file) : file[k].url # EmptyUrl
    /\ products_count = Len(file)

\* extraction has just returned a record without a url
C2_Witness ==
    /\ pc = "rec_restore"
    /\ product_info.url = EmptyUrl
    /\ \A k \in 1..Len(file) :
          ~(file[k].page = page_num /\ file[k].href = target_href)

\* ---- C3 (search_and_scrape) ----
\* C3: no two records of the output file come from the same listing page and
\* the same listing href.
C3_OneRecordPerHref ==
    \A j, k \in 1..Len(file) :
        (j # k /\ file[j].page = file[k].page) => file[j].href # file[k].href

\* the href of another container of this page, already persisted, has just
\* been met again and skipped
C3_Witness ==
    /\ pc \in {"rec_top", "paginate"} /\ i > 0
    /\ current_product_element_to_click # NoLink
    /\ target_href = current_product_element_to_click.href
    /\ target_href \in processed_product_hrefs_on_page
    /\ \E k \in 1..Len(file) :
          /\ file[k].page = page_num /\ file[k].href = target_href
          /\ file[k].c # current_product_element_to_click.c

\* ---- C4 (search_and_scrape) ----
PaginationReasons ==
    {"max_pages", "no_next_button", "no_alternative", "pagination_failed"}

C4_PageAbandoned ==
    /\ pc \notin RecordPcs
    /\ i = stale_raised.i
    /\ pc = "ss_done" => reason \in PaginationReasons

\* C4 as stated: after a stale reference raised anywhere in the processing of
\* record i, no later record of the page is processed and pagination follows.
C4_StaleAbortsPage ==
    (stale_raised # NoStale /\ stale_raised.page = page_num) => C4_PageAbandoned

\* C4, amended: a stale reference raised while reading the link's href or
\* while clicking it abandons the rest of the page and pagination follows; a
\* stale reference raised while link extraction is re-run on the refreshed
\* container i is swallowed, and the loop goes on with record i + 1.
C4_OuterStaleAbortsPage ==
    (stale_raised # NoStale /\ stale_raised.page = page_num) =>
        IF stale_raised.swallowed
        THEN i > stale_raised.i
        ELSE C4_PageAbandoned

\* a stale reference raised by the click on record 1, two records still to go
C4_Witness ==
    /\ pc = "paginate"
    /\ stale_raised = [page |-> page_num, i |-> 1, swallowed |-> FALSE]
    /\ i = 1 /\ ProductsToProcess > 2
    /\ target_href # NoHref

\* ---- C5 (search_and_scrape) ----
\* C5: the rest of a page is abandoned from the recovery handler only if a
\* recovery action (close, switch, back, or the driver reads that choose
\* between them) itself faulted; otherwise the loop goes on with record i + 1.
C5_AbortOnlyOnFailedRecovery ==
    (last_recovery # NoRecovery /\ last_recovery.page = page_num
     /\ pc \in {"rec_top", "paginate"} /\ i <= last_recovery.i + 1) =>
        IF last_recovery.driver_fault
        THEN last_recovery.aborted /\ i = last_recovery.i
        ELSE ~last_recovery.aborted /\ i = last_recovery.i + 1

\* ---- C6 (try_next_page_button) ----
\* C6: a call on a control not yet tried that got to read the URL after its
\* click returns success exactly when that URL differs from the URL it was
\* given as captured before the click; a call that could not read it fails.
C6_UrlChangeOnly ==
    last_try.fresh =>
        IF last_try.read
        THEN last_try.success <=> (last_try.after # last_try.before)
        ELSE ~last_try.success

\* a control that was clicked and left the URL where it was
C6_Witness ==
    /\ last_try.fresh /\ last_try.read
    /\ last_try.after = last_try.before
    /\ ~last_try.success
    /\ Cardinality(tried_buttons) > 0

\* ---- C10 (search_and_scrape, find_products) ----
C10_Fixture ==
    /\ site \in CleanSites
    /\ max_pages >= 2 /\ max_products_per_page >= 12

C10_Outcome ==
    /\ Len(file) = 24 /\ products_count = 24
    /\ \A j, k \in 1..Len(file) :
          j # k => file[j].href # file[k].href /\ file[j].url # file[k].url
    /\ page_num = 1
    /\ reason \in {"no_next_button", "max_pages"}

\* C10: on the fault-free fixture of two pages of twelve records with a clean
\* next control, a session allowed two pages or more and twelve records a
\* page has, when it ends, persisted 24 records of pairwise different hrefs
\* and urls, and ends on the second page because there is no further page to
\* go to, not because discovery failed.
C10_EndToEnd == (C10_Fixture /\ pc = "ss_done") => C10_Outcome

C10_Witness ==
    /\ C10_Fixture /\ max_pages = 3 /\ site.popup
    /\ pc = "ss_done" /\ reason = "no_next_button"
    /\ Len(file) = 24

C8_Sharing(dom, sig) ==
    {j \in 1..Len(dom) : /\ dom[j].tag \in ListTags /\ dom[j].vis
                         /\ dom[j].cls # <<>> /\ ClassSignature(dom[j]) = sig}

C8_Premise(dom, sig) ==
    LET S == C8_Sharing(dom, sig) IN
    /\ Cardinality(S) >= min_products_for_list
    /\ \A j \in 1..Len(dom) :
          LET other == ClassSignature(dom[j]) IN
          other # sig => Cardinality(C8_Sharing(dom, other)) < min_products_for_list
    /\ \A j \in S : MainLinkOf(dom[j]).kind = "link"
    /\ \A j, k \in S :
          j # k => LinkHref(dom[j], MainLinkOf(dom[j]))
                     # LinkHref(dom[k], MainLinkOf(dom[k]))

\* C8: on a page where exactly N >= 10 displayed elements share one class
\* signature, no other signature qualifies and every such element yields a
\* link with an href of its own, find_products (with no lag or fault injected)
\* returns that signature's selector and exactly N links.
C8_ExactDiscovery ==
    (pc = "fp_done" /\ budget = MaxNone) =>
        \A sig \in {ClassSignature(Dom[j]) : j \in 1..Len(Dom)} :
            C8_Premise(Dom, sig) =>
                /\ found.ok
                /\ found.selector = sig
                /\ Len(found.links) = Cardinality(C8_Sharing(Dom, sig))

\* the same statement on pages where nothing else matches the CSS selector
C8_OnExactPages ==
    (pc = "fp_done" /\ budget = MaxNone) =>
        \A sig \in {ClassSignature(Dom[j]) : j \in 1..Len(Dom)} :
            (C8_Premise(Dom, sig)
             /\ \A j \in 1..Len(Dom) :
                    CssMatches(Dom[j], sig) => j \in C8_Sharing(Dom, sig)) =>
                /\ found.ok
                /\ found.selector = sig
                /\ Len(found.links) = Cardinality(C8_Sharing(Dom, sig))

\* ---- C9 (_get_main_link_from_container) ----
C9_Qualifying(c) ==
    {k \in 1..Len(c.anchors) :
        LET l == c.anchors[k] IN
        /\ l.vis /\ l.href # NoHref /\ l.href # JsVoidHref
        /\ \/ l.text > MinTextLen \/ l.title > MinTextLen
           \/ (l.w >= MinLinkSide /\ l.h >= MinLinkSide)
           \/ (c.w > MinParentSide /\ c.h > MinParentSide)}

\* C9: when priority (a) does not apply and no driver call faults, the call
\* returns None if no descendant anchor qualifies, and otherwise a qualifying
\* anchor with the greatest text length and, among those, the greatest area.
C9_LinkScoring ==
    LET c == container_element
        Q == C9_Qualifying(c)
    IN (pc = "link_done" /\ fault = "none"
        /\ ~(c.tag = "a" /\ c.href # NoHref /\ c.vis)) =>
          IF Q = {} THEN main_link = NoneResult
          ELSE /\ main_link.kind = "link"
               /\ main_link.ref \in Q
               /\ \A j \in Q :
                    LET x == c.anchors[j]
                        y == c.anchors[main_link.ref]
                    IN \/ x.text < y.text
                       \/ x.text = y.text /\ x.w * x.h <= y.w * y.h

\* two qualifying anchors of text lengths 3 and 10, the shorter one first
C9_Witness ==
    /\ pc = "link_done" /\ fault = "none"
    /\ container_element.tag = "div"
    /\ Len(container_element.anchors) = 2
    /\ container_element.anchors[1].text = 3
    /\ container_element.anchors[2].text = 10
    /\ C9_Qualifying(container_element) = {1, 2}
    /\ main_link = LinkResult(2)

\* ---- C11 (find_products, search_and_scrape) ----
\* C11: when the record loop of a fault-free page is over, every href that
\* discovery returned, up to the per-page cap, has been through a processing
\* attempt: it is in the page ledger (persisted, or met again and skipped).
C11_NoSilentLoss ==
    (pc = "paginate" /\ site.faults = 0) =>
        \A k \in 1..ProductsToProcess :
            product_elements[k].href \in processed_product_hrefs_on_page

\* ---- C12 (search_and_scrape) ----
\* C12: when find_products has returned no result for a page, the next step
\* ends the session as a normal completion: the file, the count, the browser
\* windows and the tried set are as they were (no record processed, no
\* pagination control clicked), and the call then returns that count.
C12_DiscoveryFailureEndsSite ==
    [][/\ (pc = "fp_done" /\ ~found.ok) =>
             /\ pc' = "ss_done" /\ reason' = "discovery_failed"
             /\ products_count' = Len(file')
             /\ UNCHANGED <<file, products_count, browserVars, tried_buttons,
                            last_try>>
       /\ pc = "ss_done" =>
             /\ returned' = Append(returned, [count |-> products_count,
                                              reason |-> reason])
             /\ UNCHANGED browserVars]_vars

\* the second page has no product list; the first page's records are counted
C12_Witness ==
    /\ pc = "ss_done" /\ reason = "discovery_failed"
    /\ page_num = 1 /\ ~found.ok
    /\ products_count = 10 /\ Len(file) = 10
    /\ \A k \in 1..Len(file) : file[k].page = 0

\* ---- C13 (search_and_scrape) ----
\* C13: discovery runs only on pages 0 .. max_pages - 1, a pagination control
\* is clicked only while a further page is allowed, and within one call the
\* page number only ever grows by one, in a step whose pagination attempt
\* verified (the URL it read differs from the one captured before the click).
C13_BoundedPagination ==
    /\ [](/\ pc \in {"fp_start", "fp_cand", "fp_container", "fp_retry",
                     "fp_after", "fp_done", "fp_raised"} => page_num < max_pages
          /\ pc \in {"try_primary", "try_alt"} => page_num < max_pages - 1
          /\ page_num < max_pages)
    /\ [][(page_num' # page_num /\ pc # "ss_done") =>
             /\ page_num' = page_num + 1
             /\ pc \in {"try_primary", "try_alt"}
             /\ last_try'.fresh /\ last_try'.success
             /\ last_try'.after # last_try'.before]_vars

\* the allowed pages are used up while the last page still shows a control
C13_Witness ==
    /\ pc = "ss_done" /\ reason = "max_pages"
    /\ max_pages = 2 /\ page_num = 1
    /\ WindowOpen /\ FindNextPageButton(CurrentUrl) # NoButton
    /\ last_try.success

\* ---- C14 (search_and_scrape, __main__) ----
\* C14: no exception leaves search_and_scrape; whatever happened during a
\* site's traversal, the call returns its count, and the run then starts the
\* next website of the list, in order, until the list is used up.
C14_SiteIsolation ==
    /\ [](/\ pc # "run_raised"
          /\ pc = "run_done" => urls = <<>>)
    /\ [][pc = "ss_done" =>
             /\ returned' = Append(returned, [count |-> products_count,
                                              reason |-> reason])
             /\ urls # <<>> =>
                    /\ pc' = "ss_start"
                    /\ site' = Head(urls) /\ urls' = Tail(urls)]_vars

\* the first website ended in the top-level handler, the second was scraped
C14_Witness ==
    /\ pc = "run_done" /\ Len(returned) = 2
    /\ returned[1].reason = "exception"
    /\ returned[2].count = 3
    /\ site = LastSite

\* ---- C15 (extract_with_deepseek, extract_product_info) ----
\* answers that carry no value: nothing but blanks, or "none" in any case
C15_NoValueTexts ==
    {<<>>, <<" ", "\n">>, <<"n", "o", "n", "e">>, <<"N", "o", "n", "e">>,
     <<"N", "O", "N", "E">>, <<" ", "n", "O", "n", "E", "\n">>}

C15_Failed(resp) == resp.kind # "text" \/ resp.text \in C15_NoValueTexts

\* C15: when the external extractor fails for a field (exception, no
\* response, no choices, no content, empty text or "none" in any case) it
\* yields no value and the record keeps what the selectors gave for that
\* field; extraction raises only when reading the URL does, and a record with
\* a url is appended to the file all the same.
C15_ExtractorFailureIsNoValue ==
    /\ pc = "ex_raised" => fields.url = "raise"
    /\ pc \in {"ex_done", "ex_persisted"} =>
          /\ C15_Failed(api.title) =>
                /\ ExtractWithDeepseek("title", api.title) = Absent
                /\ product_info.title = SelectorTitle(fields)
          /\ C15_Failed(api.price) =>
                /\ ExtractWithDeepseek("price", api.price) = Absent
                /\ product_info.price = SelectorPrice(fields)
    /\ (pc = "ex_persisted" /\ product_info.url # EmptyUrl) =>
          file = <<product_info>> /\ products_count = 1

\* no title on the page, the extractor answers NONE for it and times out for
\* the price; the record is in the file without a title
C15_Witness ==
    /\ pc = "ex_persisted"
    /\ fields.title = Absent /\ api.title = Answer(<<"N", "O", "N", "E">>)
    /\ api.price = Raises
    /\ calls = <<"title", "price">>
    /\ product_info.title = Absent
    /\ file = <<product_info>>

\* ---- C16 (search_and_scrape) ----
\* C16: within a site's session the file only ever grows, by one record at
\* a time, at its end: the step that appends is the extraction step of the
\* current record (its href, its page, the url just returned), taken before
\* the window is restored; what was in the file stays as it was.
C16_AppendOnly ==
    [][pc # "ss_done" =>
         /\ Len(file') >= Len(file)
         /\ SubSeq(file', 1, Len(file)) = file
         /\ file' # file =>
               /\ pc = "rec_extract" /\ pc' = "rec_restore"
               /\ Len(file') = Len(file) + 1
               /\ file'[Len(file')].href = target_href
               /\ file'[Len(file')].page = page_num
               /\ file'[Len(file')].url = product_info'.url
               /\ UNCHANGED <<browserVars, i>>]_vars

\* the second record of a page is in the file while its popup is still open
C16_Witness ==
    /\ pc = "rec_restore" /\ i = 1
    /\ Len(file) = 2
    /\ file[2].href = target_href /\ file[2].page = page_num
    /\ new_window # "none" /\ active = new_window /\ IsOpen(new_window)

\* ---- C17 (try_next_page_button, search_and_scrape) ----
C17_Passed ==
    IF pc = "try_primary" THEN next_button ELSE alternative_buttons[alt_k]

\* C17: in every call of try_next_page_button the tried set only grows and
\* holds the control passed afterwards; a click is made (the attempt is a
\* fresh one, or the page moved) only on a control that was not in the set
\* before, so no control is clicked twice in one page-advance attempt.
C17_TriedOnce ==
    [][(pc \in {"try_primary", "try_alt"}) =>
         (/\ tried_buttons \subseteq tried_buttons'
          /\ C17_Passed \in tried_buttons'
          /\ (last_try'.fresh \/ history' # history) =>
                 C17_Passed \notin tried_buttons
          /\ C17_Passed \in tried_buttons =>
                 (~last_try'.fresh /\ ~last_try'.success
                  /\ UNCHANGED <<browserVars, tried_buttons>>))]_vars

\* an alternate listed under two strategies was clicked once and then skipped
C17_Witness ==
    /\ pc = "ss_done" /\ reason = "pagination_failed"
    /\ Len(alternative_buttons) = 2 /\ alt_k = 2
    /\ alternative_buttons[1] = alternative_buttons[2]
    /\ tried_buttons = {next_button, alternative_buttons[1]}
    /\ ~last_try.fresh /\ last_try.before = current_url

\* ---- C18 (search_and_scrape, find_alternative_next_buttons) ----
\* the (strategy, position) matches of shown, enabled, untried controls
C18_Matches(l, tried) ==
    {pr \in (1..NumStrategies) \X (1..Len(ControlsAt(l))) :
        /\ pr[1] \in ControlsAt(l)[pr[2]].strategies
        /\ ControlsAt(l)[pr[2]].vis /\ ControlsAt(l)[pr[2]].enabled
        /\ [p |-> l.n, k |-> pr[2]] \notin tried}

C18_Before(q, pr) == q[1] < pr[1] \/ (q[1] = pr[1] /\ q[2] < pr[2])

C18_InOrder(alts, l, tried) ==
    LET M == C18_Matches(l, tried) IN
    /\ Len(alts) = Cardinality(M)
    /\ \A pr \in M :
          alts[1 + Cardinality({q \in M : C18_Before(q, pr)})]
              = [p |-> l.n, k |-> pr[2]]

C18_Step ==
    /\ (pc = "try_primary" /\ ~last_try'.success) =>
          /\ C18_InOrder(alternative_buttons', CurrentUrl', tried_buttons')
          /\ IF alternative_buttons' = <<>>
             THEN pc' = "ss_done" /\ reason' = "no_alternative"
             ELSE pc' = "try_alt" /\ alt_k' = 1
    /\ (pc = "try_alt" /\ ~last_try'.success) =>
          IF alt_k < Len(alternative_buttons)
          THEN pc' = "try_alt" /\ alt_k' = alt_k + 1
          ELSE pc' = "ss_done" /\ reason' = "pagination_failed"
    /\ (pc \in {"try_primary", "try_alt"} /\ last_try'.success) =>
          pc' = "page_top" /\ page_num' = page_num + 1
    /\ pc = "try_alt" => UNCHANGED alternative_buttons

\* C18: after a failed primary candidate the alternates are all the shown,
\* enabled, untried matches of the six strategies, in strategy order and
\* document order; they are tried one after the other, the first that
\* verifies opens the next page, and pagination ends in failure only when
\* the last of them has been tried (or there is none).
C18_AlternatesExhausted ==
    /\ [][C18_Step]_vars
    /\ [](pc = "ss_done" /\ reason = "pagination_failed" =>
             \A k \in 1..Len(alternative_buttons) :
                 alternative_buttons[k] \in tried_buttons)

\* the primary and the first alternate failed, the second alternate verified
C18_Witness ==
    /\ pc = "page_top" /\ page_num = 1
    /\ last_try.success
    /\ Len(alternative_buttons) = 2 /\ alt_k = 2
    /\ Cardinality(tried_buttons) = 3

\* ---- C19 (search_and_scrape, find_products) ----
\* what is left of the container loop (a page of the model has fewer than 20
\* containers) and of the scroll-retry loop
C19_ContainerRank ==
    CASE pc = "fp_container" -> 2 + (20 - idx + 1) * 8
      [] pc = "fp_retry" ->
            2 + (20 - idx) * 8 + (max_scroll_attempts + 1 - scroll_attempts)
      [] OTHER -> 1

\* what is left of find_products
C19_FindRank ==
    CASE pc = "fp_start" -> 1300
      [] pc = "fp_cand" -> 10 + (Len(sorted_frequent_classes) - cand + 1) * 200
      [] pc \in {"fp_container", "fp_retry", "fp_after"} ->
            10 + (Len(sorted_frequent_classes) - cand) * 200 + C19_ContainerRank
      [] OTHER -> 5

\* what is left of the page: discovery, then the records, then pagination
C19_PageRank ==
    CASE pc = "page_top" -> 1700
      [] pc \in {"fp_start", "fp_cand", "fp_container", "fp_retry", "fp_after",
                 "fp_done", "fp_raised"} -> 300 + C19_FindRank
      [] pc = "rec_top" -> 100 + (ProductsToProcess - i) * 8 + 6
      [] pc = "rec_click" -> 100 + (ProductsToProcess - i) * 8 + 5
      [] pc = "rec_extract" -> 100 + (ProductsToProcess - i) * 8 + 4
      [] pc = "rec_restore" -> 100 + (ProductsToProcess - i) * 8 + 3
      [] pc = "rec_fault" -> 100 + (ProductsToProcess - i) * 8 + 2
      [] pc = "paginate" -> 60
      [] pc = "try_primary" -> 50
      [] pc = "try_alt" -> 10 + (Len(alternative_buttons) - alt_k)
      [] OTHER -> 0

\* what is left of the run: websites, pages of this website, rest of the page
C19_Rank ==
    CASE pc = "run_done" -> 0
      [] pc = "ss_done" -> (Len(urls) + 1) * 20000
      [] pc = "ss_start" -> (Len(urls) + 1) * 20000 + (max_pages + 1) * 2000
      [] OTHER -> (Len(urls) + 1) * 20000 + (max_pages - page_num) * 2000
                  + C19_PageRank

C19_Pcs ==
    {"ss_start", "page_top", "fp_start", "fp_cand", "fp_container", "fp_retry",
     "fp_after", "fp_done", "fp_raised", "rec_top", "rec_click", "rec_extract",
     "rec_restore", "rec_fault", "paginate", "try_primary", "try_alt",
     "ss_done", "run_done"}

\* C19: every step of a session takes it strictly closer to its end (the
\* websites, pages, candidates, containers, scroll retries, records and
\* alternates left to do only go down), the measure never goes below zero,
\* and is zero only when the run is over; control is always at a step of
\* the session or at its end.
C19_Terminates ==
    /\ [][C19_Rank' < C19_Rank]_vars
    /\ [](C19_Rank >= 0 /\ (C19_Rank = 0 <=> pc = "run_done"))
    /\ [](/\ pc \in C19_Pcs
          /\ pc \in {"fp_container", "fp_retry"} =>
                idx <= Len(Containers) /\ Len(Containers) < 20
                /\ cand <= Len(sorted_frequent_classes)
          /\ pc \in RecordPcs => i <= ProductsToProcess
          /\ pc = "try_alt" => alt_k <= Len(alternative_buttons))

\* a run over two pages of twelve records has come to its end
C19_Witness ==
    /\ pc = "run_done"
    /\ site \in CleanSites /\ max_pages = MaxPages
    /\ returned = <<[count |-> 24, reason |-> "no_next_button"]>>

\* ---- C20 (deduplicate_jsonl_file) ----
\* The values of the key field that occur in the input: an object without
\* the field carries none.
C20_Values == {records[n].key : n \in 1..Len(records)} \ {NoKey}

C20_First(v) ==
    records[CHOOSE n \in 1..Len(records) :
                /\ records[n].key = v
                /\ \A m \in 1..(n - 1) : records[m].key # v]

\* The records whose key value had already occurred earlier in the stream.
C20_Duplicates ==
    {n \in 1..Len(records) :
        /\ records[n].key # NoKey
        /\ \E m \in 1..(n - 1) : records[m].key = records[n].key}

C20_Statement ==
    LET out == output_file.content
    IN  /\ \A v \in C20_Values :
              /\ Cardinality({n \in 1..Len(out) : out[n].key = v}) = 1
              /\ \E n \in 1..Len(out) : out[n] = C20_First(v)
        /\ \A n \in 1..Len(out) : out[n].key \in C20_Values
        /\ \A m, n \in 1..Len(out) : m < n => out[m].line < out[n].line
        /\ dd_returned = <<Len(records), Len(out), Cardinality(C20_Duplicates)>>

C20_Completed == pc = "dd_done" /\ output_file.exists

\* C20: when deduplicate_jsonl_file has run to completion, its output holds,
\* for each distinct value of the key field in the input, exactly the first
\* input record carrying that value, in input order and nothing else, and the
\* triple returned is (records read, records written, records whose key value
\* had occurred earlier).
C20_FirstSeenPerKey == C20_Completed => C20_Statement

\* The same statement on streams in which every record carries a non-empty
\* key, as every record persisted by search_and_scrape does under its url.
C20_OnKeyedStreams ==
    (C20_Completed /\ \A n \in 1..Len(records) : Truthy(records[n].key))
        => C20_Statement

C20_KeyedWitness ==
    /\ C20_Completed
    /\ \A n \in 1..Len(records) : Truthy(records[n].key)
    /\ dd_returned = <<4, 2, 2>>
    /\ Len(input_file.content) = 4

\* ---- C21 (find_products) ----
\* the signatures present among the elements the clusterer enumerates
C21_Signatures(dom) ==
    {ClassSignature(dom[j]) :
        j \in {m \in 1..Len(dom) : dom[m].tag \in ListTags /\ dom[m].cls # <<>>}}

\* the number of displayed enumerated elements carrying a signature
C21_Frequency(dom, sig) ==
    Cardinality({j \in 1..Len(dom) :
                    /\ dom[j].tag \in ListTags /\ dom[j].vis
                    /\ dom[j].cls # <<>> /\ ClassSignature(dom[j]) = sig})

\* C21: once the clusterer has run, its output lists, each once, exactly the
\* signatures carried by at least 10 displayed list/block elements with a
\* non-empty class attribute, in order of non-increasing frequency, and every
\* candidate the discovery loop works on is one of them.
C21_ClustererOutput ==
    pc \in {"fp_cand", "fp_container", "fp_retry", "fp_after", "fp_done"} =>
        LET out == sorted_frequent_classes
            dom == Dom
            sigs == C21_Signatures(dom)
            freq == [sig \in sigs |-> C21_Frequency(dom, sig)]
        IN  /\ \A sig \in sigs :
                  (freq[sig] >= min_products_for_list)
                      <=> \E k \in 1..Len(out) : out[k] = sig
            /\ \A k \in 1..Len(out) : out[k] \in sigs
            /\ \A j, k \in 1..Len(out) :
                  j < k => out[j] # out[k] /\ freq[out[j]] >= freq[out[k]]
            /\ pc \in {"fp_container", "fp_retry", "fp_after"} =>
                  /\ cand \in 1..Len(out)
                  /\ freq[out[cand]] >= min_products_for_list

\* two qualifying signatures, the more frequent one later in the document,
\* and a third signature below the minimum
C21_Witness ==
    /\ pc = "fp_cand" /\ cand = 1
    /\ sorted_frequent_classes = <<<<4>>, <<1, 2>>>>
    /\ ~site.pages[1].rowsFirst
    /\ LET dom == Dom
       IN  /\ C21_Frequency(dom, <<4>>) = 11
           /\ C21_Frequency(dom, <<1, 2>>) = 10
           /\ C21_Frequency(dom, <<1, 2, 3>>) = 1

\* ---- C22 (find_products) ----
\* how often a token occurs in a class attribute
C22_Occurrences(str, word) ==
    LET words == Split(str) IN
    Cardinality({k \in 1..Len(words) : words[k] = word})

\* the two attributes hold the same tokens, in any order and with any spacing
C22_SameTokens(x, y) ==
    /\ Split(x) # <<>>
    /\ \A word \in {Split(x)[k] : k \in 1..Len(Split(x))}
                   \cup {Split(y)[k] : k \in 1..Len(Split(y))} :
          C22_Occurrences(x, word) = C22_Occurrences(y, word)

\* C22: two displayed elements whose class attributes hold the same tokens,
\* in whatever order and with whatever whitespace between them, are counted
\* under one entry of the frequency table, with count 2.
C22_PermutationInvariant ==
    (pc = "cc_done" /\ C22_SameTokens(classes_strs[1], classes_strs[2])) =>
        /\ Len(class_counts) = 1
        /\ class_counts[1].n = 2

\* "a  b" and "b a": another order and another spacing
C22_Witness ==
    /\ pc = "cc_done"
    /\ classes_strs = << <<"a", " ", " ", "b">>, <<"b", " ", "a">> >>
    /\ class_counts = << [key |-> << <<"a">>, <<"b">> >>, n |-> 2] >>

\* ---- C23 (find_products) ----
\* C23: a candidate whose container loop was left by the abort rule is never
\* the one find_products returns, whatever the number of unique links it had
\* collected before the abort.
C23_AbortedNeverReturned ==
    (pc = "fp_done" /\ found.ok) => ~aborted

\* the same for an abort that left containers of the candidate unvisited
C23_AbortedEarlyNeverReturned ==
    (pc = "fp_done" /\ found.ok) => ~(aborted /\ idx < Len(Containers))

C25_ScrollRetryPolicy ==
    /\ [](pc = "fp_retry" =>
             /\ idx > 1 /\ Len(outcomes) = idx - 1
             /\ outcomes[idx - 1]
             /\ invoked = idx
             /\ scroll_attempts < max_scroll_attempts)
    /\ [](scroll_attempts <= max_scroll_attempts)
    /\ [][(pc = "fp_retry") =>
            (/\ pc' = "fp_retry" =>
                  (/\ idx' = idx /\ cand' = cand /\ invoked' = invoked
                   /\ scroll_attempts' = scroll_attempts + 1
                   /\ main_link'.kind = "none"
                   /\ UNCHANGED <<consecutive_none_returns, outcomes>>)
             /\ (pc' # "fp_retry" /\ main_link'.kind = "none") =>
                  (/\ scroll_attempts' = max_scroll_attempts
                   /\ consecutive_none_returns' = consecutive_none_returns + 1
                   /\ outcomes' = Append(outcomes, FALSE))
             /\ main_link'.kind = "link" =>
                  (/\ consecutive_none_returns' = 0
                   /\ outcomes' = Append(outcomes, TRUE)))
         ]_vars

\* a container whose five cycles all failed, after a success
C25_Witness ==
    /\ pc = "fp_container"
    /\ scroll_attempts = max_scroll_attempts
    /\ Len(outcomes) >= 2
    /\ outcomes[Len(outcomes) - 1] /\ ~outcomes[Len(outcomes)]
    /\ consecutive_none_returns = 1

\* ---- C26 (find_products) ----
\* the number of failures at the end of the outcomes of the containers done
RECURSIVE C26_TrailingFailures(_)
C26_TrailingFailures(os) ==
    IF os = <<>> \/ os[Len(os)] THEN 0
    ELSE 1 + C26_TrailingFailures(SubSeq(os, 1, Len(os) - 1))

\* C26: between containers, and when the container loop is over, the
\* consecutive-failure counter is the number of most recent containers of
\* the candidate whose final outcome was a failure: each success - first
\* call or retry, new href or known href - puts it to 0 and each final
\* failure adds 1.
C26_CounterIsTrailingFailures ==
    pc \in {"fp_container", "fp_retry", "fp_after"} =>
        consecutive_none_returns = C26_TrailingFailures(outcomes)

\* failure, then a success whose href was already recorded, then failure:
\* the counter is 1 and the loop goes on
C26_Witness ==
    /\ pc = "fp_container" /\ idx = 5
    /\ outcomes = <<TRUE, FALSE, TRUE, FALSE>>
    /\ Len(links_from_this_class_group) = 1
    /\ consecutive_none_returns = 1

\* ---- C27 (find_products) ----
\* C27: a list returned by find_products has at least 10 links, no two with
\* the same href, in the document order of their containers; each link is
\* the one link extraction gives for its container; and when no lag or fault
\* was injected no earlier container of the candidate yields the same href.
C27_ReturnedLinks ==
    (pc = "fp_done" /\ found.ok) =>
        LET links == found.links
            dom == Dom
            containers == CssSelect(dom, found.selector)
        IN  /\ Len(links) >= min_products_for_list
            /\ \A j, k \in 1..Len(links) :
                  j < k => /\ links[j].href # links[k].href
                           /\ links[j].c < links[k].c
            /\ \A k \in 1..Len(links) :
                  /\ \E m \in 1..Len(containers) : containers[m] = links[k].c
                  /\ MainLinkOf(dom[links[k].c]) = LinkResult(links[k].ref)
                  /\ LinkHref(dom[links[k].c], LinkResult(links[k].ref)) = links[k].href
                  /\ budget = MaxNone =>
                        \A m \in 1..Len(containers) :
                            (/\ containers[m] < links[k].c
                             /\ MainLinkOf(dom[containers[m]]).kind = "link") =>
                               LinkHref(dom[containers[m]],
                                        MainLinkOf(dom[containers[m]])) # links[k].href

\* twelve tiles of which two repeat the href of the tile before them: ten
\* links are returned, the repeats are not among them
C27_Witness ==
    /\ pc = "fp_done" /\ found.ok
    /\ site.pages[1].dups = {2, 3} /\ site.pages[1].n = 12
    /\ site.pages[1].empties = {}
    /\ Len(found.links) = 10
    /\ found.links[1].c = 1 /\ found.links[2].c = 4

\* ---- C28 (_get_main_link_from_container) ----
\* C28: whatever the container and whatever fault the driver raises while
\* the container or its anchors are inspected, the call returns - a link or
\* None - and does not raise.
C28_NeverRaises ==
    pc = "link_done" => main_link.kind \in {"link", "none"}

\* the same for faults raised inside the try block of lines 171-208
C28_InnerFaultsGiveNone ==
    (pc = "link_done" /\ fault = "inner") => main_link = NoneResult

\* ---- C29 (_get_main_link_from_container) ----
\* C29: when the container is itself a displayed anchor and no driver call
\* faults, the call returns the container, whatever anchors it holds.
C29_VisibleAnchorReturned ==
    (/\ pc = "link_done" /\ fault = "none"
     /\ container_element.tag = "a" /\ container_element.vis) =>
        main_link = LinkResult(0)

\* C29, as the code has it: when the container is itself a displayed anchor
\* with a non-empty href and no driver call faults, the call returns the
\* container, whatever anchors it holds; and the container is returned in no
\* other case - an anchor without href or not displayed is treated like any
\* other container.
C29_VisibleAnchorWithHrefReturned ==
    (pc = "link_done" /\ fault = "none") =>
        ((/\ container_element.tag = "a" /\ container_element.vis
          /\ container_element.href # NoHref)
            <=> main_link = LinkResult(0))

\* a displayed anchor with an href that holds a qualifying anchor of its own
C29_Witness ==
    /\ pc = "link_done" /\ fault = "none"
    /\ container_element.tag = "a" /\ container_element.vis
    /\ container_element.href # NoHref
    /\ Len(container_element.anchors) >= 1
    /\ Qualifies(container_element, 1)
    /\ main_link = LinkResult(0)

\* ---- C30 (_get_main_link_from_container) ----
\* C30: a descendant anchor the call returns is displayed, has an href that
\* is neither empty nor the no-op placeholder, and has a stripped text or a
\* title of more than 5 characters, or a box of at least 40 by 40, or a
\* container of more than 50 by 50.
C30_ReturnedDescendantQualifies ==
    (pc = "link_done" /\ main_link.kind = "link" /\ main_link.ref >= 1) =>
        LET c == container_element
            l == c.anchors[main_link.ref]
        IN  /\ l.vis
            /\ l.href # NoHref /\ l.href # JsVoidHref
            /\ \/ l.text > 5 \/ l.title > 5
               \/ (l.w >= 40 /\ l.h >= 40)
               \/ (c.w > 50 /\ c.h > 50)

\* an anchor without text or title and with a small box, returned because
\* its container is large, next to an anchor that is not displayed
C30_Witness ==
    /\ pc = "link_done" /\ main_link = LinkResult(2)
    /\ container_element.w = 60
    /\ ~container_element.anchors[1].vis
    /\ LET l == container_element.anchors[2]
       IN  l.text = 0 /\ l.title = 0 /\ l.w = 30

\* ---- C31 (search_and_scrape) ----
\* C31: no node obtained before a navigation - a product click that changed
\* what the browser shows, a back navigation, a popup switch or close, a
\* verified pagination - is used after it; and the link clicked for a record
\* of index i > 0 is the one link extraction gives, at that moment, for
\* container i of the list re-queried with the active selector.
C31_NoStaleNodeUsed ==
    /\ ~held.misused
    /\ (pc = "rec_click" /\ i > 0) =>
          LET dom == Dom
              refreshed == CssSelect(dom, found.selector)
              link == current_product_element_to_click
          IN  /\ held.link
              /\ i < Len(refreshed)
              /\ link.c = refreshed[i + 1]
              /\ MainLinkOf(dom[link.c]) = LinkResult(link.ref)

\* the second record is about to be clicked: the first click and the way
\* back have made the links of discovery stale, the link held is a fresh one
C31_Witness ==
    /\ pc = "rec_click" /\ i = 1
    /\ Len(file) = 1
    /\ ~held.products /\ held.link
    /\ ~held.misused

\* ---- C32 (extract_product_info) ----
\* the deterministic title is absent or empty
C32_TitleMissing == SelectorTitle(fields) \in {Absent, <<>>}

\* the deterministic price is absent or empty, has no '$' followed by a
\* digit, or is the zero price
C32_PriceInvalid ==
    LET price == SelectorPrice(fields) IN
    \/ price \in {Absent, <<>>}
    \/ ~\E k \in 1..(Len(price) - 1) : price[k] = "$" /\ price[k + 1] \in Digits
    \/ price = <<"$", "0", ".", "0", "0">>

\* one call for the title if it is missing, then one for the price if it is
\* invalid, and no other
C32_CallsDue ==
    (IF C32_TitleMissing THEN <<"title">> ELSE <<>>)
        \o (IF C32_PriceInvalid THEN <<"price">> ELSE <<>>)

\* a field asked for takes the answer if there is a non-empty one, and every
\* other field keeps the deterministic value
C32_FieldsAfter(asked) ==
    LET title == ExtractWithDeepseek("title", api.title)
        price == ExtractWithDeepseek("price", api.price)
        has(f) == \E k \in 1..Len(asked) : asked[k] = f
    IN  /\ product_info.title =
              IF has("title") /\ title \notin {Absent, <<>>}
              THEN title ELSE SelectorTitle(fields)
        /\ product_info.price =
              IF has("price") /\ price \notin {Absent, <<>>}
              THEN price ELSE SelectorPrice(fields)

\* C32: when the page HTML can be read, the external extractor is called
\* for exactly the fields judged missing or invalid, once each, and its
\* answer replaces a field only when it is a non-empty value.
C32_GatewayForMissingFields ==
    (pc = "ex_done" /\ fields.source = "ok") =>
        calls = C32_CallsDue /\ C32_FieldsAfter(calls)

\* C32, as the code has it: the same, for a record that has a url; for a
\* record whose url is empty, or when the page HTML cannot be read, the
\* external extractor is not called and every field keeps its deterministic
\* value.
C32_GatewayForMissingFieldsOfUrlRecords ==
    pc = "ex_done" =>
        /\ calls = IF product_info.url # EmptyUrl /\ fields.source = "ok"
                   THEN C32_CallsDue ELSE <<>>
        /\ C32_FieldsAfter(calls)

\* the page gives a title and the zero price: one call, for the price, and
\* its answer is taken
C32_Witness ==
    /\ pc = "ex_done"
    /\ product_info.url # EmptyUrl
    /\ ~C32_TitleMissing
    /\ SelectorPrice(fields) = <<"$", "0", ".", "0", "0">>
    /\ calls = <<"price">>
    /\ product_info.price = <<"$", "9", "9">>

\* ---- C34 (extract_with_deepseek) ----
\* C34: the HTML sent to the external extractor never exceeds the ceiling
\* of 100000 characters, and a target field other than price and title gives
\* no value without any call.
C34_HtmlWithinCeiling ==
    pc = "ds_done" =>
        /\ request.sent => request.html <= HtmlCeiling
        /\ ds_target_field \notin {"price", "title"} =>
              ~request.sent /\ ds_returned = Absent

\* C34, as the code has it: HTML of at most 100000 characters is sent whole,
\* longer HTML is sent as its first 100000 characters followed by a mark of
\* three, so what is sent never exceeds 100003 characters; a target field
\* other than price and title gives no value without any call.
C34_HtmlWithinCeilingAndMark ==
    pc = "ds_done" =>
        /\ ds_target_field \in {"price", "title"} =>
              /\ request.sent /\ request.field = ds_target_field
              /\ request.html =
                    IF ds_html_content <= 100000 THEN ds_html_content ELSE 100003
        /\ ds_target_field \notin {"price", "title"} =>
              ~request.sent /\ ds_returned = Absent

\* a page of twice the ceiling, cut for the request, and an answer returned
C34_Witness ==
    /\ pc = "ds_done"
    /\ ds_html_content = 200000
    /\ request = Request("price", 100003)
    /\ ds_returned = <<"$", "9", "9">>

\* a field the function does not know
C34_WitnessUnknownField ==
    pc = "ds_done" /\ ds_target_field = "brand" /\ ds_html_content = 200000

\* ---- C33 (search_and_scrape) ----
\* the iteration has resolved a link, read its href without a fault and
\* found it in the ledger of the page
C33_MetProcessedHref ==
    /\ pc = "rec_top"
    /\ current_product_element_to_click' # NoLink
    /\ current_product_element_to_click'.href \in processed_product_hrefs_on_page
    /\ pc' # "rec_fault" /\ stale_raised' = stale_raised

\* C33: the iteration of a record whose href is already in the ledger of
\* the page ends at the ledger test: the loop goes to the next record with
\* no click, no window switch, no extraction, no gateway call and no append,
\* and the browser is as it was.
C33_LedgerTestFirst ==
    [][C33_MetProcessedHref =>
          /\ i' = i + 1 /\ pc' \in {"rec_top", "paginate"}
          /\ UNCHANGED <<handles, active, history, main_window, new_window>>
          /\ opened' = "none"
          /\ UNCHANGED <<file, products_count, product_info, calls,
                         processed_product_hrefs_on_page>>]_vars

\* the second container of the page led to the href of the first, which is
\* in the file: the iteration was passed over, and the file has one record
\* for two iterations
C33_Witness ==
    /\ pc \in {"rec_top", "paginate"} /\ i = 2 /\ Len(file) = 1
    /\ current_product_element_to_click # NoLink
    /\ target_href = current_product_element_to_click.href
    /\ processed_product_hrefs_on_page = {target_href}
    /\ file[1].page = page_num /\ file[1].href = target_href
    /\ file[1].c # current_product_element_to_click.c
    /\ opened = "none" /\ active = "main"

\* ---- C35 (search_and_scrape) ----
\* the positions in the file of the records persisted from the current page
C35_PersistedOnPage == {k \in 1..Len(file) : file[k].page = page_num}

\* C35: at every point of the record loop the ledger of the page holds
\* exactly the listing hrefs of the records persisted so far from the
\* current page, one href per record.
C35_LedgerIsPersistedHrefs ==
    pc \in RecordPcs =>
        /\ processed_product_hrefs_on_page =
              {file[k].href : k \in C35_PersistedOnPage}
        /\ Cardinality(processed_product_hrefs_on_page) =
              Cardinality(C35_PersistedOnPage)

\* the same, as long as no write to the output file has failed on this page
C35_LedgerWithoutWriteFault ==
    (pc \in RecordPcs /\ \A h \in processed_product_hrefs_on_page :
                            \E k \in C35_PersistedOnPage : file[k].href = h) =>
        Cardinality(processed_product_hrefs_on_page) =
            Cardinality(C35_PersistedOnPage)

\* ---- C36 (search_and_scrape) ----
\* the recovery handler has just ended without a fault of its own and the
\* loop is about to start the next record
C36_JustRecovered ==
    /\ pc \in {"rec_top", "paginate"}
    /\ last_recovery # NoRecovery /\ last_recovery.page = page_num
    /\ ~last_recovery.aborted /\ i = last_recovery.i + 1

C36_OnListingInMain ==
    /\ IsOpen("main") /\ active = "main"
    /\ CurrentUrl.k = "list"

\* C36: after a recovery that did not fault, the browser shows the listing
\* page in the main window before the next record starts, wherever the
\* fault of the record struck and whatever the listing URL is.
C36_RecoveredOnListing == C36_JustRecovered => C36_OnListingInMain

\* the same on sites whose listing URLs contain "search"
C36_RecoveredOnSearchListing ==
    (C36_JustRecovered /\ site.search) => C36_OnListingInMain

\* ---- C37 (deduplicate_jsonl_file) ----
\* The records whose key value had already occurred earlier in the stream,
\* a missing key and an empty key each taken as a value like any other.
C37_SeenEarlier ==
    {n \in 1..Len(records) :
        \E m \in 1..(n - 1) : records[m].key = records[n].key}

C37_Counts ==
    /\ dd_returned[3] = Cardinality(C37_SeenEarlier)
    /\ dd_returned[1] = dd_returned[2] + dd_returned[3]

\* C37: the number of duplicates reported is the number of input records
\* whose key value had occurred earlier in the stream, and the records read
\* are the records written plus the duplicates, also when records lack the
\* key field or carry an empty key.
C37_DuplicatesReported ==
    (pc = "dd_done" /\ output_file.exists) => C37_Counts

\* the same on streams in which every record carries a non-empty key
C37_DuplicatesReportedOnKeyedStreams ==
    (pc = "dd_done" /\ output_file.exists
     /\ \A n \in 1..Len(records) : Truthy(records[n].key)) => C37_Counts

\* ---- C38 (_get_main_link_from_container) ----
\* the orders in which n descendant anchors can be enumerated
C38_Permutations(n) ==
    {p \in [1..n -> 1..n] : \A a, b \in 1..n : a # b => p[a] # p[b]}

\* the container with its anchors enumerated in the order p
C38_Permuted(c, p) ==
    [c EXCEPT !.anchors = [k \in 1..Len(c.anchors) |-> c.anchors[p[k]]]]

\* the anchor a result stands for (the container itself for a result of
\* priority (a), none for no result)
C38_Anchor(c, r) ==
    IF r.kind = "link" /\ r.ref > 0 THEN <<c.anchors[r.ref]>> ELSE <<>>

\* the qualifying anchors whose key (text length, area) no other qualifying
\* anchor of the container exceeds
C38_Top(c) ==
    LET Q == C9_Qualifying(c) IN
    {k \in Q : \A j \in Q :
        LET x == c.anchors[j]
            y == c.anchors[k]
        IN \/ x.text < y.text
           \/ x.text = y.text /\ x.w * x.h <= y.w * y.h}

\* C38: for every order in which the descendant anchors of the container
\* can be enumerated the call returns the same anchor, also when several
\* qualifying anchors tie on text length and area.
C38_OrderIndependent ==
    LET c == container_element IN
    (pc = "link_done" /\ fault = "none") =>
        \A p \in C38_Permutations(Len(c.anchors)) :
            LET d == C38_Permuted(c, p)
                r == MainLinkOf(d)
            IN  /\ r.kind = main_link.kind
                /\ C38_Anchor(d, r) = C38_Anchor(c, main_link)

\* C38, as the code has it: for every order of enumeration the call gives a
\* result of the same kind; a descendant returned is the first, in the order
\* enumerated, of the qualifying anchors of greatest key, so the same anchor
\* is returned for every order whenever the qualifying anchors of greatest
\* key are all alike, and anchors that tie are returned by position.
C38_OrderIndependentUpToTies ==
    LET c == container_element IN
    (pc = "link_done" /\ fault = "none") =>
        \A p \in C38_Permutations(Len(c.anchors)) :
            LET d == C38_Permuted(c, p)
                r == MainLinkOf(d)
            IN  /\ r.kind = main_link.kind
                /\ (r.kind = "link" /\ r.ref > 0) =>
                      /\ main_link.ref > 0
                      /\ r.ref \in C38_Top(d)
                      /\ \A k \in C38_Top(d) : r.ref <= k
                      /\ main_link.ref \in C38_Top(c)
                      /\ \A k \in C38_Top(c) : main_link.ref <= k
                      /\ (\A j, k \in C38_Top(c) : c.anchors[j] = c.anchors[k])
                            => C38_Anchor(d, r) = C38_Anchor(c, main_link)

\* two qualifying anchors of the same text length and area that lead to
\* different hrefs: the one enumerated first is returned
C38_Witness ==
    LET c == container_element IN
    /\ pc = "link_done" /\ fault = "none" /\ c.tag = "div"
    /\ Len(c.anchors) = 2
    /\ C38_Top(c) = {1, 2}
    /\ c.anchors[1].href # c.anchors[2].href
    /\ main_link = LinkResult(1)

====
